---- MODULE Spec2Model ----
(***************************************************************************)
(* Model of the coral authentication server: the public session routes     *)
(* (/public/register, /login, /refresh, /logout, /logout-all), the JWT     *)
(* access-token gate (middleware auth), the user collection they share,    *)
(* and the protected routes behind the gate (/auth and /auth/tasks) with   *)
(* the task collection.                                                    *)
(*                                                                         *)
(* Strings that are validated character by character (usernames and        *)
(* passwords) are tuples of one-character strings.  A JWT string is the    *)
(* record of what it was signed with and what it carries: jwt.verify       *)
(* accepts exactly the strings jwt.sign produced under the same secret.    *)
(* crypto.randomBytes(32) is modelled as a generator of fresh values.      *)
(* Store operations succeed in these specifications.                       *)
(***************************************************************************)
EXTENDS Integers, Sequences, FiniteSets, TLC

VARIABLES
    users,         \* the User collection: sequence of documents, insertion order
    now,           \* the clock read by new Date() and by jwt.sign (iat)
    nodeEnv,       \* process.env.NODE_ENV, read by getUserSchema()
    issued,        \* refresh tokens returned by successful logins, in order
    streak,        \* per username: successful logins since its last logout
    resp,          \* the response to the most recent request
    procs,         \* requests in flight (interleaved executions only)
    tasks,         \* the Task collection: sequence of documents, insertion order
    created,       \* the number of Task documents constructed so far
    ran,           \* the protected handler the most recent request ran, or "none"
    codec          \* the token last minted and what verifying it returned

vars == <<users, now, nodeEnv, issued, streak, resp, procs, tasks, created, ran, codec>>

(***************************************************************************)
(* Bounds of the model.                                                    *)
(***************************************************************************)
MaxLogins == 2      \* successful logins in one behaviour of two accounts
CapLogins == 6      \* successful logins in one behaviour of a single account
MaxClock == 1       \* clock ticks in one behaviour
MaxTasks == 2       \* Task documents constructed in one behaviour
MaxTokenIds == 2    \* token ids the generator has returned before a mint

(***************************************************************************)
(* Program constants.                                                      *)
(***************************************************************************)
MaxRefreshTokens == 5
UsernameMin == 3
UsernameMax == 50
PasswordMin == 8
PasswordMax == 100
SaltRounds == 10
Secret == "default_insecure_secret_for_development"
ExpiresIn == 1           \* CONFIG.jwt.expiresIn ("15m"), in ticks of the clock
RefreshExpiresIn == 1    \* CONFIG.jwt.refreshExpiresIn ("7d"), in ticks of the clock
RefreshSecret == "default_insecure_refresh_secret_for_development"

(***************************************************************************)
(* Character strings.                                                      *)
(***************************************************************************)
Lower == {"a", "b", "d", "n", "o", "p", "r", "s", "w"}
Upper == {"P"}
Digit == {"0"}
UsernameChars == Lower \cup Upper \cup Digit \cup {"_", "-"}

Undefined == <<"<undefined>">>

Ann == <<"a", "n", "n">>
Bob == <<"b", "o", "b">>
ValidUsernames == {Ann, Bob}
TooShort == <<"a", "b">>
UsernameInputs == ValidUsernames \cup {TooShort}

StrongPw == <<"P", "a", "s", "s", "w", "0", "r", "d">>
LoosePw == <<"p", "a", "s", "s", "w", "o", "r", "d">>
WeakPw == <<"p", "w">>
RegisterPasswords == {StrongPw, WeakPw}
LoginPasswords == {StrongPw, LoosePw, WeakPw}

UserAgents == {"Device1"}
\* values of process.env.NODE_ENV: the three the repository's scripts and
\* deployment guides set, one it never names, and the variable left unset
UnsetEnv == "<unset>"
NodeEnvs == {"production", "development", "test", "staging", UnsetEnv}

(***************************************************************************)
(* Token strings.  A string handed to jwt.verify is either the output of   *)
(* a jwt.sign call (the secret it was signed with and its payload), or a   *)
(* string no secret verifies, the empty string, or a missing body field.   *)
(***************************************************************************)
NoPayload == [username |-> Undefined]
InvalidToken == [str |-> "invalid-token", secret |-> "", payload |-> NoPayload]
EmptyString == [str |-> "", secret |-> "", payload |-> NoPayload]
NoField == [str |-> "<undefined>", secret |-> "", payload |-> NoPayload]

\* jwt.sign(payload, secret): HS256 over the payload with iat added.  No call
\* passes an expiresIn option, so no payload carries exp and jwt.verify has
\* no expiry to compare the clock with.
JwtSign(payload, secret, t) ==
    [str |-> "jwt", secret |-> secret, payload |-> payload @@ [iat |-> t]]

\* mutant: the signature is decoded but not checked against the secret
JwtVerify_AnySecret(token, secret) ==
    IF token.str = "jwt"
    THEN [ok |-> TRUE, payload |-> token.payload]
    ELSE [ok |-> FALSE, payload |-> NoPayload]

\* jwt.verify(token, secret): the payload, or a throw (ok = FALSE)
JwtVerify(token, secret) ==
    IF token.str = "jwt" /\ token.secret = secret
    THEN [ok |-> TRUE, payload |-> token.payload]
    ELSE [ok |-> FALSE, payload |-> NoPayload]

\* mutant: every call returns the same string
GenerateSecureRandomString_Fixed(n) == 1

\* generateSecureRandomString(): a value no earlier call returned
GenerateSecureRandomString(n) == n + 1

(***************************************************************************)
(* Password hashing: bcrypt.hash and bcrypt.compare.                       *)
(***************************************************************************)
BcryptHash(password, rounds) ==
    [alg |-> "bcrypt", rounds |-> rounds, of |-> password]

BcryptCompare(password, hashed) == hashed.alg = "bcrypt" /\ hashed.of = password

(***************************************************************************)
(* Body schemas (zod) and validateBody.                                    *)
(***************************************************************************)
IsString(v) == v # Undefined

UsernameOk(v) ==
    /\ IsString(v)
    /\ Len(v) >= UsernameMin
    /\ Len(v) <= UsernameMax
    /\ \A i \in 1..Len(v) : v[i] \in UsernameChars

PasswordLooseOk(v) ==
    /\ IsString(v)
    /\ Len(v) >= PasswordMin
    /\ Len(v) <= PasswordMax

PasswordStrictOk(v) ==
    /\ PasswordLooseOk(v)
    /\ \E i \in 1..Len(v) : v[i] \in Lower
    /\ \E i \in 1..Len(v) : v[i] \in Upper
    /\ \E i \in 1..Len(v) : v[i] \in Digit

userSchema(body) == UsernameOk(body.username) /\ PasswordStrictOk(body.password)

userSchemaLoose(body) == UsernameOk(body.username) /\ PasswordLooseOk(body.password)

\* the relaxed schema everywhere but in production
getUserSchema_LooseOutsideProduction(env, body) ==
    IF env = "production"
    THEN userSchema(body)
    ELSE userSchemaLoose(body)

\* getUserSchema(): the loose schema in development and test
getUserSchema(env, body) ==
    IF env = "development" \/ env = "test"
    THEN userSchemaLoose(body)
    ELSE userSchema(body)

\* refreshTokenSchema: a string of at least one character
refreshTokenSchema(body) ==
    body.refreshToken # NoField /\ body.refreshToken # EmptyString

(***************************************************************************)
(* Responses.                                                              *)
(***************************************************************************)
\* res.status(status).json(...) / res.send(...): what the client receives
Reply(op, status, message) ==
    [op |-> op, status |-> status, message |-> message, details |-> FALSE,
     accessToken |-> NoField, refreshToken |-> NoField, user |-> Undefined,
     tasks |-> <<>>]

NoResponse == Reply("none", 0, "")

\* sendError(res, status, message, err): the body carries details only
\* when err has a details field (validation errors)
sendError(op, status, message, withDetails) ==
    [Reply(op, status, message) EXCEPT !.details = withDetails]

\* mutant: the 400 answer leaves the field-level list out
ValidationFailed_NoDetails(op) == sendError(op, 400, "validation error", FALSE)

\* validateBody(schema): 400 with the field-level list when safeParse fails
ValidationFailed(op) == sendError(op, 400, "validation error", TRUE)

(***************************************************************************)
(* The User collection (mongoose model User, unique index on username).    *)
(***************************************************************************)
\* new User({username, password}): the array path defaults to [], and the
\* schema keeps mongoose's version key __v (field v), 0 on insert
NewUser(username, hashed) ==
    [username |-> username, password |-> hashed,
     hasTokens |-> TRUE, refreshTokens |-> <<>>, v |-> 0]

First(S) == IF S = {} THEN 0 ELSE CHOOSE i \in S : \A j \in S : i <= j

\* mutant: the filter names a field no document has
FindOne_WrongField(us, username) == 0

\* User.findOne({username}): index of the first match, 0 for null
FindOne(us, username) ==
    First({i \in 1..Len(us) : us[i].username = username})

\* mutant: the query drops its "refreshTokens.token" condition
FindOneWithToken_UsernameOnly(us, username, token) ==
    First({i \in 1..Len(us) : us[i].username = username})

\* User.findOne({username, "refreshTokens.token": token})
FindOneWithToken(us, username, token) ==
    First({i \in 1..Len(us) :
              /\ us[i].username = username
              /\ \E k \in 1..Len(us[i].refreshTokens) :
                    us[i].refreshTokens[k].token = token})

\* save() of a new document: the unique index rejects a second document
\* with the same username (duplicate key error)
InsertOne(us, doc) ==
    IF \E i \in 1..Len(us) : us[i].username = doc.username
    THEN [ok |-> FALSE, users |-> us]
    ELSE [ok |-> TRUE, users |-> Append(us, doc)]

\* user.refreshTokens as the loaded document shows it
LoadedTokens(doc) == IF doc.hasTokens THEN doc.refreshTokens ELSE <<>>

\* Array.prototype.slice(-n)
SliceLast(s, n) == IF Len(s) > n THEN SubSeq(s, Len(s) - n + 1, Len(s)) ELSE s

\* mutant: the update removes every record of the user
PullToken_PullsAll(us, username, token) ==
    LET i == FindOne(us, username) IN
    IF i = 0 \/ ~us[i].hasTokens THEN us
    ELSE [us EXCEPT ![i].refreshTokens = <<>>]

\* updateOne({username}, {$pull: {refreshTokens: {token}}})
PullToken(us, username, token) ==
    LET i == FindOne(us, username) IN
    IF i = 0 \/ ~us[i].hasTokens THEN us
    ELSE [us EXCEPT ![i].refreshTokens =
             SelectSeq(us[i].refreshTokens, LAMBDA r : r.token # token)]

\* mutant: the update unsets a field the document does not have
UnsetTokens_WrongField(us, username) == us

\* mutant: the call deletes the document (deleteOne)
UnsetTokens_DeletesUser(us, username) ==
    SelectSeq(us, LAMBDA doc : doc.username # username)

\* mutant: the update has an empty filter and reaches every document
UnsetTokens_EveryUser(us, username) ==
    [i \in 1..Len(us) |->
        [us[i] EXCEPT !.hasTokens = FALSE, !.refreshTokens = <<>>]]

\* updateOne({username}, {$unset: {refreshTokens: 1}})
UnsetTokens(us, username) ==
    LET i == FindOne(us, username) IN
    IF i = 0 THEN us
    ELSE [us EXCEPT ![i].hasTokens = FALSE, ![i].refreshTokens = <<>>]

(***************************************************************************)
(* Route handlers of /public, each with its validateBody middleware: the   *)
(* collection after the request and the response sent.                     *)
(***************************************************************************)
\* POST /public/register
RegisterRoute(us, env, body) ==
    IF ~getUserSchema(env, body)
    THEN [users |-> us, resp |-> ValidationFailed("register")]
    ELSE
    LET existing == FindOne(us, body.username)
        hashed == BcryptHash(body.password, SaltRounds)
        saved == InsertOne(us, NewUser(body.username, hashed))
    IN  IF existing # 0
        THEN [users |-> us,
              resp |-> sendError("register", 409, "Username already exists", FALSE)]
        ELSE IF saved.ok
        THEN [users |-> saved.users,
              resp |-> Reply("register", 201, "User registered")]
        ELSE [users |-> us,
              resp |-> sendError("register", 500, "Registration failed", FALSE)]

\* mutant: the access token is signed with the refresh secret
LoginAccessToken_RefreshSecret(username, t) ==
    JwtSign([username |-> username], RefreshSecret, t)

\* login's access token: jwt.sign({username}, CONFIG.jwt.secret)
LoginAccessToken(username, t) == JwtSign([username |-> username], Secret, t)

\* mutant: the refresh token's payload leaves the token id out
LoginRefreshToken_NoTokenId(username, tokenId, t) ==
    JwtSign([username |-> username, tokenId |-> 0], RefreshSecret, t)

\* login's refresh token: jwt.sign({username, tokenId}, CONFIG.jwt.refreshSecret)
LoginRefreshToken(username, tokenId, t) ==
    JwtSign([username |-> username, tokenId |-> tokenId], RefreshSecret, t)

\* mutant: the access token is signed with the refresh secret
RefreshAccessToken_RefreshSecret(username, t) ==
    JwtSign([username |-> username], RefreshSecret, t)

\* refresh's access token: jwt.sign({username: decoded.username}, CONFIG.jwt.secret)
RefreshAccessToken(username, t) == JwtSign([username |-> username], Secret, t)

\* the record login pushes
NewRecord(token, tokenId, userAgent, t) ==
    [token |-> token, tokenId |-> tokenId,
     deviceInfo |-> IF userAgent = "" THEN "Unknown" ELSE userAgent,
     createdAt |-> t, lastUsed |-> t]

\* mutant: slice(0, 5) keeps the oldest five
PushToken_KeepOldest(tokens, record) ==
    LET pushed == Append(tokens, record) IN
    IF Len(pushed) > MaxRefreshTokens
    THEN SubSeq(pushed, 1, MaxRefreshTokens)
    ELSE pushed

\* mutant: the length check is dropped
PushToken_NoCap(tokens, record) == Append(tokens, record)

\* mutant: over the cap, the record used least recently is dropped
PushToken_EvictLeastRecentlyUsed(tokens, record) ==
    LET pushed == Append(tokens, record) IN
    IF Len(pushed) > MaxRefreshTokens
    THEN LET k == CHOOSE j \in 1..Len(tokens) :
                     \A m \in 1..Len(tokens) :
                        \/ tokens[j].lastUsed < tokens[m].lastUsed
                        \/ tokens[j].lastUsed = tokens[m].lastUsed /\ j <= m
         IN  SubSeq(pushed, 1, k - 1) \o SubSeq(pushed, k + 1, Len(pushed))
    ELSE pushed

\* push, then keep the newest five
PushToken(tokens, record) ==
    LET pushed == Append(tokens, record) IN
    IF Len(pushed) > MaxRefreshTokens
    THEN SliceLast(pushed, MaxRefreshTokens)
    ELSE pushed

\* mutant: save() writes the array of the loaded document over the stored
\* one whenever it differs, without looking at the version
SaveLogin_ReplaceArray(us, i, doc, record) ==
    [ok |-> TRUE,
     users |-> [us EXCEPT ![i].hasTokens = TRUE,
                          ![i].refreshTokens = PushToken(LoadedTokens(doc), record),
                          ![i].v = @ + 1]]

\* mutant: without the guard for a missing array, the push throws on a
\* document whose field was unset and nothing is saved
SaveLogin_RequiresArray(us, i, doc, record) ==
    IF ~doc.hasTokens
    THEN [ok |-> FALSE, users |-> us]
    ELSE SaveLogin_ReplaceArray(us, i, doc, record)

\* login's user.save() on the document doc that findOne loaded, after the
\* push and the conditional slice.  A push alone is sent as a $push with
\* $inc of __v and no version condition; once the array path was assigned
\* (slice), the whole array is sent as a $set under the condition that __v
\* is still the loaded one, and a mismatch rejects (VersionError).
SaveLogin(us, i, doc, record) ==
    IF Len(LoadedTokens(doc)) + 1 > MaxRefreshTokens
    THEN IF us[i].v # doc.v
         THEN [ok |-> FALSE, users |-> us]
         ELSE [ok |-> TRUE,
               users |-> [us EXCEPT
                             ![i].hasTokens = TRUE,
                             ![i].refreshTokens = PushToken(LoadedTokens(doc), record),
                             ![i].v = @ + 1]]
    ELSE [ok |-> TRUE,
          users |-> [us EXCEPT
                        ![i].hasTokens = TRUE,
                        ![i].refreshTokens = Append(LoadedTokens(us[i]), record),
                        ![i].v = @ + 1]]

\* mutant: an unknown username gets an answer of its own
UnknownUser_NotFound == sendError("login", 404, "User not found", FALSE)

\* login's answer when findOne returns null
UnknownUser == sendError("login", 401, "Invalid credentials", FALSE)

\* login's answer when bcrypt.compare returns false
WrongPassword == sendError("login", 401, "Invalid credentials", FALSE)

\* POST /public/login; n is the number of token ids generated so far
LoginRoute(us, env, t, n, body, userAgent) ==
    IF ~getUserSchema(env, body)
    THEN [users |-> us, resp |-> ValidationFailed("login")]
    ELSE
    LET i == FindOne(us, body.username) IN
    IF i = 0
    THEN [users |-> us, resp |-> UnknownUser]
    ELSE IF ~BcryptCompare(body.password, us[i].password)
    THEN [users |-> us, resp |-> WrongPassword]
    ELSE
    LET accessToken == LoginAccessToken(body.username, t)
        tokenId == GenerateSecureRandomString(n)
        refreshToken == LoginRefreshToken(body.username, tokenId, t)
        saved == SaveLogin(us, i, us[i],
                           NewRecord(refreshToken, tokenId, userAgent, t))
    IN  [users |-> saved.users,
         resp |-> [Reply("login", 200, "") EXCEPT
                      !.accessToken = accessToken,
                      !.refreshToken = refreshToken]]

\* mutant: findIndex without its predicate's comparison matches the first record
TokenIndex_First(tokens, token) == IF Len(tokens) = 0 THEN 0 ELSE 1

\* user.refreshTokens.findIndex(t => t.token === refreshToken), 0 for -1
TokenIndex(tokens, token) ==
    First({k \in 1..Len(tokens) : tokens[k].token = token})

\* mutant: the used record is removed (the token is consumed)
TouchToken_Consumes(us, i, tokenIndex, t) ==
    IF tokenIndex # 0
    THEN [us EXCEPT ![i].refreshTokens =
             SelectSeq(us[i].refreshTokens,
                       LAMBDA r : r # us[i].refreshTokens[tokenIndex])]
    ELSE us

\* mutant: every record of the user gets the new lastUsed
TouchToken_TouchesAll(us, i, tokenIndex, t) ==
    IF tokenIndex # 0
    THEN [us EXCEPT ![i].refreshTokens =
             [k \in 1..Len(us[i].refreshTokens) |->
                 [us[i].refreshTokens[k] EXCEPT !.lastUsed = t]]]
    ELSE us

\* user.refreshTokens[tokenIndex].lastUsed = new Date(); user.save()
TouchToken(us, i, tokenIndex, t) ==
    IF tokenIndex # 0
    THEN [us EXCEPT ![i].refreshTokens[tokenIndex].lastUsed = t]
    ELSE us

\* what a positional $set leaves at an index the stored array does not have
StrayRecord(t) ==
    [token |-> NoField, tokenId |-> 0, deviceInfo |-> "",
     createdAt |-> t, lastUsed |-> t]

\* refresh's user.save() on the document doc that findOne loaded: a $set of
\* refreshTokens.<tokenIndex>.lastUsed under the condition that __v is still
\* the loaded one (a mismatch rejects with VersionError); __v is not
\* incremented.  The index is applied to the array as stored now.
SaveTouch(us, i, doc, tokenIndex, t) ==
    IF us[i].v # doc.v
    THEN [ok |-> FALSE, users |-> us]
    ELSE IF tokenIndex <= Len(LoadedTokens(us[i]))
    THEN [ok |-> TRUE, users |-> TouchToken(us, i, tokenIndex, t)]
    ELSE [ok |-> TRUE,
          users |-> [us EXCEPT
                        ![i].hasTokens = TRUE,
                        ![i].refreshTokens =
                            Append(LoadedTokens(us[i]), StrayRecord(t))]]

\* POST /public/refresh
RefreshRoute(us, t, body) ==
    IF ~refreshTokenSchema(body)
    THEN [users |-> us, resp |-> ValidationFailed("refresh")]
    ELSE
    LET decoded == JwtVerify(body.refreshToken, RefreshSecret) IN
    IF ~decoded.ok
    THEN [users |-> us,
          resp |-> sendError("refresh", 401, "Invalid refresh token", FALSE)]
    ELSE
    LET i == FindOneWithToken(us, decoded.payload.username, body.refreshToken) IN
    IF i = 0
    THEN [users |-> us,
          resp |-> sendError("refresh", 401, "Invalid refresh token", FALSE)]
    ELSE
    LET tokenIndex == TokenIndex(LoadedTokens(us[i]), body.refreshToken)
        accessToken == RefreshAccessToken(decoded.payload.username, t)
    IN  [users |-> TouchToken(us, i, tokenIndex, t),
         resp |-> [Reply("refresh", 200, "") EXCEPT !.accessToken = accessToken]]

\* mutant: a token without a stored record is refused
LogoutRoute_RequiresRecord(us, body) ==
    IF ~refreshTokenSchema(body)
    THEN [users |-> us, resp |-> ValidationFailed("logout")]
    ELSE
    LET decoded == JwtVerify(body.refreshToken, RefreshSecret) IN
    IF ~decoded.ok
          \/ FindOneWithToken(us, decoded.payload.username, body.refreshToken) = 0
    THEN [users |-> us,
          resp |-> sendError("logout", 401, "Invalid refresh token", FALSE)]
    ELSE [users |-> PullToken(us, decoded.payload.username, body.refreshToken),
          resp |-> Reply("logout", 200, "Logged out successfully")]

\* POST /public/logout
LogoutRoute(us, body) ==
    IF ~refreshTokenSchema(body)
    THEN [users |-> us, resp |-> ValidationFailed("logout")]
    ELSE
    LET decoded == JwtVerify(body.refreshToken, RefreshSecret) IN
    IF ~decoded.ok
    THEN [users |-> us,
          resp |-> sendError("logout", 401, "Invalid refresh token", FALSE)]
    ELSE [users |-> PullToken(us, decoded.payload.username, body.refreshToken),
          resp |-> Reply("logout", 200, "Logged out successfully")]

\* mutant: a token without a stored record is refused
LogoutAllRoute_RequiresRecord(us, body) ==
    IF ~refreshTokenSchema(body)
    THEN [users |-> us, resp |-> ValidationFailed("logout-all")]
    ELSE
    LET decoded == JwtVerify(body.refreshToken, RefreshSecret) IN
    IF ~decoded.ok
          \/ FindOneWithToken(us, decoded.payload.username, body.refreshToken) = 0
    THEN [users |-> us,
          resp |-> sendError("logout-all", 401, "Invalid refresh token", FALSE)]
    ELSE [users |-> UnsetTokens(us, decoded.payload.username),
          resp |-> Reply("logout-all", 200,
                         "Logged out from all devices successfully")]

\* POST /public/logout-all
LogoutAllRoute(us, body) ==
    IF ~refreshTokenSchema(body)
    THEN [users |-> us, resp |-> ValidationFailed("logout-all")]
    ELSE
    LET decoded == JwtVerify(body.refreshToken, RefreshSecret) IN
    IF ~decoded.ok
    THEN [users |-> us,
          resp |-> sendError("logout-all", 401, "Invalid refresh token", FALSE)]
    ELSE [users |-> UnsetTokens(us, decoded.payload.username),
          resp |-> Reply("logout-all", 200,
                         "Logged out from all devices successfully")]

(***************************************************************************)
(* The access-token gate and the route behind it.                          *)
(***************************************************************************)
NoHeader == <<"<undefined>">>

\* authHeader?.split(" ")[1]; the header is given as its space-separated parts
BearerToken(header) ==
    IF header = NoHeader \/ Len(header) < 2 THEN NoField ELSE header[2]

\* the gate's answer when the header carries no token
NoTokenError == sendError("auth", 401, "No token", FALSE)

\* mutant: a failed verification is answered like a missing token
InvalidTokenError_AsNoToken == sendError("auth", 401, "No token", FALSE)

\* the gate's answer when jwt.verify calls back with an error
InvalidTokenError == sendError("auth", 403, "Invalid token", FALSE)

\* mutant: the error branches lack their return and fall through to next()
auth_NoReturn(header) ==
    LET token == BearerToken(header) IN
    IF token = NoField \/ token = EmptyString
    THEN [next |-> TRUE, user |-> NoPayload, resp |-> NoTokenError]
    ELSE
    LET verified == JwtVerify(token, Secret) IN
    IF ~verified.ok
    THEN [next |-> TRUE, user |-> NoPayload, resp |-> InvalidTokenError]
    ELSE [next |-> TRUE, user |-> verified.payload, resp |-> NoResponse]

\* mutant: the gate also asks the store for a session of the user
auth_ChecksSession(header) ==
    LET token == BearerToken(header) IN
    IF token = NoField \/ token = EmptyString
    THEN [next |-> FALSE, user |-> NoPayload, resp |-> NoTokenError]
    ELSE
    LET verified == JwtVerify(token, Secret) IN
    IF ~verified.ok
          \/ \A i \in 1..Len(users) :
                 users[i].username = verified.payload.username
                     => users[i].refreshTokens = <<>>
    THEN [next |-> FALSE, user |-> NoPayload, resp |-> InvalidTokenError]
    ELSE [next |-> TRUE, user |-> verified.payload, resp |-> NoResponse]

\* middleware auth: next() with req.user set, or an error response
auth(header) ==
    LET token == BearerToken(header) IN
    IF token = NoField \/ token = EmptyString
    THEN [next |-> FALSE, user |-> NoPayload, resp |-> NoTokenError]
    ELSE
    LET verified == JwtVerify(token, Secret) IN
    IF ~verified.ok
    THEN [next |-> FALSE, user |-> NoPayload, resp |-> InvalidTokenError]
    ELSE [next |-> TRUE, user |-> verified.payload, resp |-> NoResponse]

\* GET /auth behind the gate: "Hello " + req.user.username
AuthRoute(header) ==
    LET gate == auth(header) IN
    IF ~gate.next THEN gate.resp
    ELSE [Reply("auth", 200, "Hello") EXCEPT !.user = gate.user.username]

(***************************************************************************)
(* The Task collection (mongoose model Task, timestamps: true) and the     *)
(* routes of /auth/tasks, mounted behind the gate.  An ObjectId is hex     *)
(* (24 hexadecimal characters, numbered in the order of generation) or a   *)
(* string of another shape.  Each route gives the collection after the     *)
(* request, the number of documents constructed, the response and the      *)
(* handler that ran.                                                       *)
(***************************************************************************)
EncryptedDataMin == 1
EncryptedDataMax == 10000

ObjectId(n) == [hex |-> TRUE, n |-> n]
DummyId == [hex |-> FALSE, n |-> 0]

\* createTaskSchema: encryptedData is a string of 1 to 10000 characters
createTaskSchema(body) ==
    /\ IsString(body.encryptedData)
    /\ Len(body.encryptedData) >= EncryptedDataMin
    /\ Len(body.encryptedData) <= EncryptedDataMax

\* updateTaskSchema: encryptedData is a string of 1 to 10000 characters
updateTaskSchema(body) ==
    /\ IsString(body.encryptedData)
    /\ Len(body.encryptedData) >= EncryptedDataMin
    /\ Len(body.encryptedData) <= EncryptedDataMax

\* taskIdSchema: id matches /^[0-9a-fA-F]{24}$/
taskIdSchema(params) == params.id.hex

\* validateParams(schema): 400 with the field-level list when safeParse fails
ParamsValidationFailed(op) ==
    sendError(op, 400, "parameter validation error", TRUE)

\* new Task({username, encryptedData}) saved at time t as the n-th document
NewTask(n, username, encryptedData, t) ==
    [id |-> ObjectId(n), username |-> username, encryptedData |-> encryptedData,
     createdAt |-> t, updatedAt |-> t]

\* Task.find(): every document of the collection
Find(ts) == ts

\* index of the document with _id = id, 0 for null
FindById(ts, id) == First({i \in 1..Len(ts) : ts[i].id = id})

\* Task.findByIdAndUpdate(id, {encryptedData}, {new: true})
FindByIdAndUpdate(ts, id, encryptedData, t) ==
    LET i == FindById(ts, id) IN
    IF i = 0 THEN ts
    ELSE [ts EXCEPT ![i].encryptedData = encryptedData, ![i].updatedAt = t]

\* Task.findByIdAndDelete(id)
FindByIdAndDelete(ts, id) == SelectSeq(ts, LAMBDA d : d.id # id)

\* a request answered before any task handler ran
Stopped(ts, n, response) ==
    [tasks |-> ts, created |-> n, resp |-> response, ran |-> "none"]

\* GET /auth with what it leaves of the Task collection
GreetingRoute(ts, n, header) ==
    IF ~auth(header).next THEN Stopped(ts, n, auth(header).resp)
    ELSE [tasks |-> ts, created |-> n, ran |-> "greeting",
          resp |-> AuthRoute(header)]

\* GET /auth/tasks
ListTasksRoute(ts, n, header) ==
    LET gate == auth(header) IN
    IF ~gate.next THEN Stopped(ts, n, gate.resp)
    ELSE [tasks |-> ts, created |-> n, ran |-> "list",
          resp |-> [Reply("tasks.list", 200, "") EXCEPT !.tasks = Find(ts)]]

\* POST /auth/tasks
CreateTaskRoute(ts, n, t, header, body) ==
    LET gate == auth(header) IN
    IF ~gate.next THEN Stopped(ts, n, gate.resp)
    ELSE IF ~createTaskSchema(body)
    THEN Stopped(ts, n, ValidationFailed("tasks.create"))
    ELSE
    LET task == NewTask(n + 1, gate.user.username, body.encryptedData, t) IN
    [tasks |-> Append(ts, task), created |-> n + 1, ran |-> "create",
     resp |-> [Reply("tasks.create", 201, "") EXCEPT !.tasks = <<task>>]]

\* PUT /auth/tasks/:id
UpdateTaskRoute(ts, n, t, header, params, body) ==
    LET gate == auth(header) IN
    IF ~gate.next THEN Stopped(ts, n, gate.resp)
    ELSE IF ~taskIdSchema(params)
    THEN Stopped(ts, n, ParamsValidationFailed("tasks.update"))
    ELSE IF ~updateTaskSchema(body)
    THEN Stopped(ts, n, ValidationFailed("tasks.update"))
    ELSE
    LET i == FindById(ts, params.id)
        updated == FindByIdAndUpdate(ts, params.id, body.encryptedData, t)
    IN  IF i = 0
        THEN [tasks |-> ts, created |-> n, ran |-> "update",
              resp |-> sendError("tasks.update", 404, "Task not found", FALSE)]
        ELSE [tasks |-> updated, created |-> n, ran |-> "update",
              resp |-> [Reply("tasks.update", 200, "") EXCEPT
                           !.tasks = <<updated[i]>>]]

\* DELETE /auth/tasks/:id
DeleteTaskRoute(ts, n, header, params) ==
    LET gate == auth(header) IN
    IF ~gate.next THEN Stopped(ts, n, gate.resp)
    ELSE IF ~taskIdSchema(params)
    THEN Stopped(ts, n, ParamsValidationFailed("tasks.delete"))
    ELSE
    LET i == FindById(ts, params.id) IN
    IF i = 0
    THEN [tasks |-> ts, created |-> n, ran |-> "delete",
          resp |-> sendError("tasks.delete", 404, "Task not found", FALSE)]
    ELSE [tasks |-> FindByIdAndDelete(ts, params.id), created |-> n,
          ran |-> "delete",
          resp |-> Reply("tasks.delete", 200, "Task deleted")]

(***************************************************************************)
(* Requests a client can send.                                             *)
(***************************************************************************)
RegisterBodies(names) == [username : names, password : RegisterPasswords]

LoginBodies(names) == [username : names, password : LoginPasswords]

IssuedRefresh == {issued[k] : k \in 1..Len(issued)}

\* the tokens of the response the client has just received
Received == {resp.accessToken, resp.refreshToken} \ {NoField}

TokenInputs ==
    IssuedRefresh \cup Received \cup {InvalidToken, EmptyString, NoField}

TokenBodies == [refreshToken : TokenInputs]

Headers ==
    {NoHeader, <<"Bearer">>}
        \cup {<<"Bearer", tok>> : tok \in IssuedRefresh \cup Received
                                              \cup {InvalidToken}}

Procs == {1, 2}

\* nothing minted yet
NoCodec == [kind |-> "none", username |-> Undefined, tokenId |-> 0,
            token |-> NoField, verified |-> "no", ok |-> FALSE,
            payload |-> NoPayload]

NoDoc == [username |-> Undefined, password |-> Undefined,
          hasTokens |-> FALSE, refreshTokens |-> <<>>, v |-> 0]

\* body: the request; doc: the document findOne loaded; index: findIndex
IdleProc == [pc |-> "idle", body |-> [username |-> Undefined, password |-> Undefined],
             resp |-> NoResponse, userAgent |-> "", doc |-> NoDoc, index |-> 0]

(***************************************************************************)
(* Requests served one at a time: each action is one whole request.        *)
(***************************************************************************)
Init ==
    /\ users = <<>>
    /\ now = 0
    /\ nodeEnv = "test"
    /\ issued = <<>>
    /\ streak = [u \in ValidUsernames |-> 0]
    /\ resp = NoResponse
    /\ procs = [p \in Procs |-> IdleProc]
    /\ tasks = <<>>
    /\ created = 0
    /\ ran = "none"
    /\ codec = NoCodec

Register(body) ==
    LET r == RegisterRoute(users, nodeEnv, body) IN
    /\ users' = r.users
    /\ resp' = r.resp
    /\ ran' = "none"
    /\ UNCHANGED <<now, nodeEnv, issued, streak, procs, tasks, created, codec>>

Login(body, userAgent, maxLogins) ==
    LET r == LoginRoute(users, nodeEnv, now, Len(issued), body, userAgent) IN
    /\ r.resp.status = 200 => Len(issued) < maxLogins
    /\ users' = r.users
    /\ resp' = r.resp
    /\ IF r.resp.status = 200
       THEN /\ issued' = Append(issued, r.resp.refreshToken)
            /\ streak' = [streak EXCEPT ![body.username] = @ + 1]
       ELSE UNCHANGED <<issued, streak>>
    /\ ran' = "none"
    /\ UNCHANGED <<now, nodeEnv, procs, tasks, created, codec>>

Refresh(body) ==
    LET r == RefreshRoute(users, now, body) IN
    /\ users' = r.users
    /\ resp' = r.resp
    /\ ran' = "none"
    /\ UNCHANGED <<now, nodeEnv, issued, streak, procs, tasks, created, codec>>

\* a logout that was answered 200 ends the login streak of the user it names
EndStreak(r, body) ==
    IF r.resp.status = 200 /\ body.refreshToken.payload.username \in ValidUsernames
    THEN [streak EXCEPT ![body.refreshToken.payload.username] = 0]
    ELSE streak

Logout(body) ==
    LET r == LogoutRoute(users, body) IN
    /\ users' = r.users
    /\ resp' = r.resp
    /\ streak' = EndStreak(r, body)
    /\ ran' = "none"
    /\ UNCHANGED <<now, nodeEnv, issued, procs, tasks, created, codec>>

LogoutAll(body) ==
    LET r == LogoutAllRoute(users, body) IN
    /\ users' = r.users
    /\ resp' = r.resp
    /\ streak' = EndStreak(r, body)
    /\ ran' = "none"
    /\ UNCHANGED <<now, nodeEnv, issued, procs, tasks, created, codec>>

\* a request to a protected route: the response, the handler that ran and
\* the Task collection it leaves
Serve(r) ==
    /\ resp' = r.resp
    /\ ran' = r.ran
    /\ tasks' = r.tasks
    /\ created' = r.created
    /\ UNCHANGED <<users, now, nodeEnv, issued, streak, procs, codec>>

GetAuth(header) == Serve(GreetingRoute(tasks, created, header))

Tick ==
    /\ now < MaxClock
    /\ now' = now + 1
    /\ UNCHANGED <<users, nodeEnv, issued, streak, resp, procs, tasks, created, ran, codec>>

NextFor(names, maxLogins) ==
    \/ \E body \in RegisterBodies(names) : Register(body)
    \/ \E body \in LoginBodies(names), userAgent \in UserAgents :
          Login(body, userAgent, maxLogins)
    \/ \E body \in TokenBodies : Refresh(body)
    \/ \E body \in TokenBodies : Logout(body)
    \/ \E body \in TokenBodies : LogoutAll(body)
    \/ \E header \in Headers : GetAuth(header)

\* two accounts and a clock
Next == NextFor(UsernameInputs, MaxLogins) \/ Tick

Spec == Init /\ [][Next]_vars

\* a single account, logged in often enough to exceed the retention cap,
\* within one tick of the clock
NextCap == NextFor({Ann, TooShort}, CapLogins)

SpecCap == Init /\ [][NextCap]_vars

(***************************************************************************)
(* Requests to the protected routes, served one at a time, by clients that *)
(* hold the tokens of the logins made so far.                              *)
(***************************************************************************)
TaskData == {<<"x">>, <<"h", "a", "c", "k">>}

TaskBodies == [encryptedData : TaskData \cup {<<>>}]

\* well-formed ids (one of them of no document) and an ill-formed one
TaskParams == [id : {ObjectId(k) : k \in 1..(created + 1)} \cup {DummyId}]

\* the access tokens the logins returned beside their refresh tokens
IssuedAccess ==
    {LoginAccessToken(issued[k].payload.username, issued[k].payload.iat) :
        k \in 1..Len(issued)}

TaskHeaders ==
    {NoHeader, <<"Bearer">>, <<"Bearer", InvalidToken>>}
        \cup {<<"Bearer", tok>> : tok \in IssuedAccess}
        \cup {<<"Basic", tok>> : tok \in IssuedAccess}

TaskAccounts == [username : ValidUsernames, password : {StrongPw}]

\* one login for each account
TaskLogins == Cardinality(ValidUsernames)

ListTasks(header) == Serve(ListTasksRoute(tasks, created, header))

CreateTask(header, body) ==
    LET r == CreateTaskRoute(tasks, created, now, header, body) IN
    /\ r.ran = "create" => created < MaxTasks
    /\ Serve(r)

UpdateTask(header, params, body) ==
    Serve(UpdateTaskRoute(tasks, created, now, header, params, body))

DeleteTask(header, params) ==
    Serve(DeleteTaskRoute(tasks, created, header, params))

NextTask ==
    \/ \E body \in TaskAccounts : Register(body)
    \/ \E body \in TaskAccounts, userAgent \in UserAgents :
          Login(body, userAgent, TaskLogins)
    \/ \E header \in TaskHeaders : GetAuth(header)
    \/ \E header \in TaskHeaders : ListTasks(header)
    \/ \E header \in TaskHeaders, body \in TaskBodies : CreateTask(header, body)
    \/ \E header \in TaskHeaders, params \in TaskParams, body \in TaskBodies :
          UpdateTask(header, params, body)
    \/ \E header \in TaskHeaders, params \in TaskParams : DeleteTask(header, params)

SpecTask == Init /\ [][NextTask]_vars

(***************************************************************************)
(* The token codec on its own: the jwt.sign calls of login and refresh     *)
(* applied to any valid username, and the jwt.verify calls of the gate and *)
(* of the refresh route applied to the result.                             *)
(***************************************************************************)
CodecChars == {"a", "P", "0", "_", "-"}

\* the valid usernames of three characters over CodecChars, and the accounts
CodecUsernames ==
    ValidUsernames \cup {u \in [1..UsernameMin -> CodecChars] : UsernameOk(u)}

Minted(kind, username, tokenId, token) ==
    [kind |-> kind, username |-> username, tokenId |-> tokenId,
     token |-> token, verified |-> "no", ok |-> FALSE, payload |-> NoPayload]

\* login mints the access token for username
MintAccess(username) ==
    /\ codec' = Minted("access", username, 0, LoginAccessToken(username, now))
    /\ UNCHANGED <<users, now, nodeEnv, issued, streak, resp, procs, tasks,
                   created, ran>>

\* refresh mints the access token for the username it decoded
MintAccessByRefresh(username) ==
    /\ codec' = Minted("access", username, 0, RefreshAccessToken(username, now))
    /\ UNCHANGED <<users, now, nodeEnv, issued, streak, resp, procs, tasks,
                   created, ran>>

\* login mints the refresh token for username and a fresh token id
MintRefresh(username, n) ==
    LET tokenId == GenerateSecureRandomString(n) IN
    /\ codec' = Minted("refresh", username, tokenId,
                       LoginRefreshToken(username, tokenId, now))
    /\ UNCHANGED <<users, now, nodeEnv, issued, streak, resp, procs, tasks,
                   created, ran>>

\* the gate verifies the minted token as an access token
VerifyAccess ==
    LET gate == auth(<<"Bearer", codec.token>>) IN
    /\ codec.kind # "none"
    /\ codec' = [codec EXCEPT !.verified = "access", !.ok = gate.next,
                              !.payload = gate.user]
    /\ UNCHANGED <<users, now, nodeEnv, issued, streak, resp, procs, tasks,
                   created, ran>>

\* the refresh route verifies the minted token as a refresh token
VerifyRefresh ==
    LET decoded == JwtVerify(codec.token, RefreshSecret) IN
    /\ codec.kind # "none"
    /\ codec' = [codec EXCEPT !.verified = "refresh", !.ok = decoded.ok,
                              !.payload = decoded.payload]
    /\ UNCHANGED <<users, now, nodeEnv, issued, streak, resp, procs, tasks,
                   created, ran>>

NextCodec ==
    \/ \E username \in CodecUsernames : MintAccess(username)
    \/ \E username \in CodecUsernames : MintAccessByRefresh(username)
    \/ \E username \in CodecUsernames, n \in 0..(MaxTokenIds - 1) :
          MintRefresh(username, n)
    \/ VerifyAccess
    \/ VerifyRefresh
    \/ Tick

SpecCodec == Init /\ [][NextCodec]_vars

(***************************************************************************)
(* Interleaved requests.  A handler runs until its next await; the steps   *)
(* of different requests interleave freely.  procs[p] is the request that  *)
(* connection p has in flight and the response it last received.           *)
(***************************************************************************)
Finish(p, response) ==
    [procs EXCEPT ![p].pc = "done", ![p].resp = response]

\* POST /public/register up to its first await (User.findOne)
RegisterStart(p, body) ==
    /\ procs[p].pc \in {"idle", "done"}
    /\ procs' = IF getUserSchema(nodeEnv, body)
                THEN [procs EXCEPT ![p].pc = "findOne", ![p].body = body,
                                   ![p].resp = NoResponse]
                ELSE [procs EXCEPT ![p].pc = "done", ![p].body = body,
                                   ![p].resp = ValidationFailed("register")]
    /\ UNCHANGED <<users, now, nodeEnv, issued, streak, resp, tasks, created, ran, codec>>

\* User.findOne resolves: 409 if a document exists, else on to bcrypt.hash
RegisterFindOne(p) ==
    /\ procs[p].pc = "findOne"
    /\ procs' = IF FindOne(users, procs[p].body.username) # 0
                THEN Finish(p, sendError("register", 409,
                                         "Username already exists", FALSE))
                ELSE [procs EXCEPT ![p].pc = "hash"]
    /\ UNCHANGED <<users, now, nodeEnv, issued, streak, resp, tasks, created, ran, codec>>

\* bcrypt.hash resolves; user.save() is issued
RegisterHash(p) ==
    /\ procs[p].pc = "hash"
    /\ procs' = [procs EXCEPT ![p].pc = "save"]
    /\ UNCHANGED <<users, now, nodeEnv, issued, streak, resp, tasks, created, ran, codec>>

\* user.save() resolves or rejects (duplicate key): 201, or the catch's 500
RegisterSave(p) ==
    LET hashed == BcryptHash(procs[p].body.password, SaltRounds)
        saved == InsertOne(users, NewUser(procs[p].body.username, hashed))
    IN  /\ procs[p].pc = "save"
        /\ users' = saved.users
        /\ procs' = IF saved.ok
                    THEN Finish(p, Reply("register", 201, "User registered"))
                    ELSE Finish(p, sendError("register", 500,
                                             "Registration failed", FALSE))
        /\ UNCHANGED <<now, nodeEnv, issued, streak, resp, tasks, created, ran, codec>>

NextConc ==
    \/ \E p \in Procs, body \in RegisterBodies(UsernameInputs) :
          RegisterStart(p, body)
    \/ \E p \in Procs : RegisterFindOne(p)
    \/ \E p \in Procs : RegisterHash(p)
    \/ \E p \in Procs : RegisterSave(p)

SpecConc == Init /\ [][NextConc]_vars

(***************************************************************************)
(* Requests during which a call to the store rejects (connection lost,     *)
(* operation timed out).  failAt tells which call rejects: the handler's   *)
(* read (findOne) or its write (save, updateOne).  Each operator gives the *)
(* response and whether the request reached the rejecting call; a         *)
(* rejected call changes no document.                                      *)
(***************************************************************************)
FailPoints == {"read", "write"}

\* the catch blocks of the five routes
RegisterCatch == sendError("register", 500, "Registration failed", FALSE)
LoginCatch == sendError("login", 500, "Login failed", FALSE)
RefreshCatch == sendError("refresh", 401, "Invalid refresh token", FALSE)
LogoutCatch == sendError("logout", 401, "Invalid refresh token", FALSE)
LogoutAllCatch == sendError("logout-all", 401, "Invalid refresh token", FALSE)

Unfailed(response) == [resp |-> response, failed |-> FALSE]
Caught(response) == [resp |-> response, failed |-> TRUE]

RegisterRouteFailing(us, env, body, failAt) ==
    IF ~getUserSchema(env, body) THEN Unfailed(ValidationFailed("register"))
    ELSE IF failAt = "read" THEN Caught(RegisterCatch)
    ELSE IF FindOne(us, body.username) # 0
    THEN Unfailed(sendError("register", 409, "Username already exists", FALSE))
    ELSE Caught(RegisterCatch)

LoginRouteFailing(us, env, body, failAt) ==
    IF ~getUserSchema(env, body) THEN Unfailed(ValidationFailed("login"))
    ELSE IF failAt = "read" THEN Caught(LoginCatch)
    ELSE
    LET i == FindOne(us, body.username) IN
    IF i = 0 THEN Unfailed(UnknownUser)
    ELSE IF ~BcryptCompare(body.password, us[i].password)
    THEN Unfailed(WrongPassword)
    ELSE Caught(LoginCatch)

RefreshRouteFailing(us, body, failAt) ==
    IF ~refreshTokenSchema(body) THEN Unfailed(ValidationFailed("refresh"))
    ELSE
    LET decoded == JwtVerify(body.refreshToken, RefreshSecret) IN
    IF ~decoded.ok THEN Unfailed(RefreshCatch)
    ELSE IF failAt = "read" THEN Caught(RefreshCatch)
    ELSE IF FindOneWithToken(us, decoded.payload.username, body.refreshToken) = 0
    THEN Unfailed(sendError("refresh", 401, "Invalid refresh token", FALSE))
    ELSE Caught(RefreshCatch)

\* logout and logout-all make one call to the store, an updateOne
LogoutRouteFailing(us, body) ==
    IF ~refreshTokenSchema(body) THEN Unfailed(ValidationFailed("logout"))
    ELSE IF ~JwtVerify(body.refreshToken, RefreshSecret).ok
    THEN Unfailed(LogoutCatch)
    ELSE Caught(LogoutCatch)

LogoutAllRouteFailing(us, body) ==
    IF ~refreshTokenSchema(body) THEN Unfailed(ValidationFailed("logout-all"))
    ELSE IF ~JwtVerify(body.refreshToken, RefreshSecret).ok
    THEN Unfailed(LogoutAllCatch)
    ELSE Caught(LogoutAllCatch)

\* a request that met a rejecting store call
Fails(r) ==
    /\ r.failed
    /\ resp' = r.resp
    /\ ran' = "none"
    /\ UNCHANGED <<users, now, nodeEnv, issued, streak, procs, tasks, created, codec>>

RegisterFails(body, failAt) ==
    Fails(RegisterRouteFailing(users, nodeEnv, body, failAt))

LoginStoreFails(body, failAt) ==
    Fails(LoginRouteFailing(users, nodeEnv, body, failAt))

RefreshFails(body, failAt) == Fails(RefreshRouteFailing(users, body, failAt))

LogoutFails(body) == Fails(LogoutRouteFailing(users, body))

LogoutAllFails(body) == Fails(LogoutAllRouteFailing(users, body))

FailAccounts == {Ann, TooShort}

NextFail ==
    \/ NextFor(FailAccounts, MaxLogins)
    \/ \E body \in RegisterBodies(FailAccounts), failAt \in FailPoints :
          RegisterFails(body, failAt)
    \/ \E body \in LoginBodies(FailAccounts), failAt \in FailPoints :
          LoginStoreFails(body, failAt)
    \/ \E body \in TokenBodies, failAt \in FailPoints : RefreshFails(body, failAt)
    \/ \E body \in TokenBodies : LogoutFails(body)
    \/ \E body \in TokenBodies : LogoutAllFails(body)

SpecFail == Init /\ [][NextFail]_vars

(***************************************************************************)
(* One account that registers, logs in past the retention cap and          *)
(* refreshes with the tokens it was issued, while the clock advances.      *)
(***************************************************************************)
EvictBodies == [username : {Ann}, password : {StrongPw}]

NextEvict ==
    \/ \E body \in EvictBodies : Register(body)
    \/ \E body \in EvictBodies, userAgent \in UserAgents :
          Login(body, userAgent, CapLogins)
    \/ \E body \in [refreshToken : IssuedRefresh] : Refresh(body)
    \/ Tick

SpecEvict == Init /\ [][NextEvict]_vars

(***************************************************************************)
(* Two accounts that register, log in, refresh and log out with the tokens *)
(* they were issued, while the clock advances.                             *)
(***************************************************************************)
PairBodies == [username : ValidUsernames, password : {StrongPw}]

IssuedBodies == [refreshToken : IssuedRefresh]

NextPair ==
    \/ \E body \in PairBodies : Register(body)
    \/ \E body \in PairBodies, userAgent \in UserAgents :
          Login(body, userAgent, MaxLogins)
    \/ \E body \in IssuedBodies : Refresh(body)
    \/ \E body \in IssuedBodies : Logout(body)
    \/ \E body \in IssuedBodies : LogoutAll(body)
    \/ Tick

SpecPair == Init /\ [][NextPair]_vars

(***************************************************************************)
(* Interleaved login, refresh and logout of one account.  Login and        *)
(* refresh read the document (findOne) and write it back later (save);     *)
(* the steps of other requests may fall in between.  Logout and LogoutAll  *)
(* make one call to the store (updateOne, which leaves __v alone) and are  *)
(* single steps, as is Register here.                                      *)
(***************************************************************************)
RaceBodies == [username : {Ann}, password : {StrongPw}]

\* the response is sent; nothing of the request is kept
Answer(p, response) ==
    [procs EXCEPT ![p] = [IdleProc EXCEPT !.pc = "done", !.resp = response]]

\* POST /public/login up to the point where findOne and bcrypt.compare
\* have resolved
LoginStart(p, body, userAgent) ==
    LET i == FindOne(users, body.username)
    IN  /\ procs[p].pc \in {"idle", "done"}
        /\ procs' =
              IF ~getUserSchema(nodeEnv, body)
              THEN Answer(p, ValidationFailed("login"))
              ELSE IF i = 0 THEN Answer(p, UnknownUser)
              ELSE IF ~BcryptCompare(body.password, users[i].password)
              THEN Answer(p, WrongPassword)
              ELSE [procs EXCEPT ![p] =
                       [pc |-> "login.save", body |-> body, resp |-> NoResponse,
                        userAgent |-> userAgent, doc |-> users[i], index |-> 0]]
        /\ UNCHANGED <<users, now, nodeEnv, issued, streak, resp, tasks, created, ran, codec>>

\* the tokens are signed, the record is pushed, user.save() resolves or
\* rejects: 200 with the tokens, or the catch's 500
LoginSave(p) ==
    LET body == procs[p].body
        i == FindOne(users, body.username)
        accessToken == LoginAccessToken(body.username, now)
        tokenId == GenerateSecureRandomString(Len(issued))
        refreshToken == LoginRefreshToken(body.username, tokenId, now)
        saved == SaveLogin(users, i, procs[p].doc,
                           NewRecord(refreshToken, tokenId, procs[p].userAgent, now))
    IN  /\ procs[p].pc = "login.save"
        /\ Len(issued) < CapLogins
        /\ users' = saved.users
        /\ IF saved.ok
           THEN /\ issued' = Append(issued, refreshToken)
                /\ streak' = [streak EXCEPT ![body.username] = @ + 1]
                /\ procs' = Answer(p, [Reply("login", 200, "") EXCEPT
                                          !.accessToken = accessToken,
                                          !.refreshToken = refreshToken])
           ELSE /\ procs' = Answer(p, LoginCatch)
                /\ UNCHANGED <<issued, streak>>
        /\ UNCHANGED <<now, nodeEnv, resp, tasks, created, ran, codec>>

\* POST /public/refresh up to the point where findOne has resolved
RefreshStart(p, body) ==
    LET decoded == JwtVerify(body.refreshToken, RefreshSecret)
        i == FindOneWithToken(users, decoded.payload.username, body.refreshToken)
    IN  /\ procs[p].pc \in {"idle", "done"}
        /\ procs' =
              IF ~refreshTokenSchema(body)
              THEN Answer(p, ValidationFailed("refresh"))
              ELSE IF ~decoded.ok \/ i = 0
              THEN Answer(p, sendError("refresh", 401, "Invalid refresh token", FALSE))
              ELSE [procs EXCEPT ![p] =
                       [pc |-> "refresh.save", body |-> body, resp |-> NoResponse,
                        userAgent |-> "", doc |-> users[i],
                        index |-> TokenIndex(LoadedTokens(users[i]),
                                             body.refreshToken)]]
        /\ UNCHANGED <<users, now, nodeEnv, issued, streak, resp, tasks, created, ran, codec>>

\* lastUsed is assigned, user.save() resolves or rejects: 200 with a new
\* access token, or the catch's 401
RefreshSave(p) ==
    LET doc == procs[p].doc
        i == FindOne(users, doc.username)
        saved == SaveTouch(users, i, doc, procs[p].index, now)
    IN  /\ procs[p].pc = "refresh.save"
        /\ users' = saved.users
        /\ procs' = IF saved.ok
                    THEN Answer(p, [Reply("refresh", 200, "") EXCEPT
                                       !.accessToken =
                                           RefreshAccessToken(doc.username, now)])
                    ELSE Answer(p, RefreshCatch)
        /\ UNCHANGED <<now, nodeEnv, issued, streak, resp, tasks, created, ran, codec>>

\* two connections log in and refresh; nobody logs out
NextRace ==
    \/ \E body \in RaceBodies : Register(body)
    \/ \E p \in Procs, body \in RaceBodies, userAgent \in UserAgents :
          LoginStart(p, body, userAgent)
    \/ \E p \in Procs : LoginSave(p)
    \/ \E p \in Procs, body \in IssuedBodies : RefreshStart(p, body)
    \/ \E p \in Procs : RefreshSave(p)

SpecRace == Init /\ [][NextRace]_vars

\* one connection logs in and refreshes while logouts are served
NextRevoke ==
    \/ \E body \in RaceBodies : Register(body)
    \/ \E body \in RaceBodies, userAgent \in UserAgents :
          LoginStart(1, body, userAgent)
    \/ LoginSave(1)
    \/ \E body \in IssuedBodies : RefreshStart(1, body)
    \/ RefreshSave(1)
    \/ \E body \in IssuedBodies : Logout(body)
    \/ \E body \in IssuedBodies : LogoutAll(body)

SpecRevoke == Init /\ [][NextRevoke]_vars

(***************************************************************************)
(* One account served under each value of NODE_ENV.  getUserSchema() is    *)
(* called once, when the routes are set up, so the environment is fixed    *)
(* for the life of the process.                                            *)
(***************************************************************************)
EnvBodies == [username : {Ann}, password : {StrongPw, LoosePw}]

InitEnv ==
    /\ users = <<>>
    /\ now = 0
    /\ nodeEnv \in NodeEnvs
    /\ issued = <<>>
    /\ streak = [u \in ValidUsernames |-> 0]
    /\ resp = NoResponse
    /\ procs = [p \in Procs |-> IdleProc]
    /\ tasks = <<>>
    /\ created = 0
    /\ ran = "none"
    /\ codec = NoCodec

NextEnv ==
    \/ \E body \in EnvBodies : Register(body)
    \/ \E body \in EnvBodies, userAgent \in UserAgents :
          Login(body, userAgent, MaxLogins)
    \/ \E body \in IssuedBodies : Logout(body)

SpecEnv == InitEnv /\ [][NextEnv]_vars

(***************************************************************************)
(* One request followed statement by statement through its middleware and  *)
(* its handler.  procs[1] is the request in service: pc is the statement   *)
(* reached, sent counts the responses written (res.json), passed counts    *)
(* the calls of next().  Every awaited store or hash call resolves or      *)
(* rejects; a rejection, like a throw, enters the handler's catch.         *)
(***************************************************************************)
IdleRequest ==
    [pc |-> "idle", route |-> "none",
     body |-> [username |-> Undefined, password |-> Undefined],
     header |-> NoHeader, userAgent |-> "", doc |-> NoDoc, index |-> 0,
     sent |-> 0, passed |-> 0, resp |-> NoResponse]

FlowAccounts == {Ann}

\* res.status(status).json(body): one more response on the wire
Send(r, response) == [r EXCEPT !.sent = @ + 1, !.resp = response]

\* mutant: the error branch lacks its return and runs on
SendErrorReturn_FallsThrough(r, response, following) ==
    [Send(r, response) EXCEPT !.pc = following]

\* sendError(res, ...); return;  -- the statement that follows is not reached
SendErrorReturn(r, response, following) ==
    [Send(r, response) EXCEPT !.pc = "done"]

\* the response that ends the try block or the catch block
SendEnd(r, response) == [Send(r, response) EXCEPT !.pc = "done"]

\* next(): express calls the next function of the route's stack
PassOn(r, label) == [r EXCEPT !.passed = @ + 1, !.pc = label]

Goto(r, label) == [r EXCEPT !.pc = label]

\* the step leaves the request as r; resp is the last response written
FlowStepTo(r) ==
    /\ procs' = [procs EXCEPT ![1] = r]
    /\ resp' = IF r.sent > procs[1].sent THEN r.resp ELSE resp

\* the first statement of the handler behind validateBody
HandlerEntry(route) ==
    CASE route = "register" -> "register.findOne"
      [] route = "login" -> "login.findOne"
      [] route = "refresh" -> "refresh.verify"
      [] OTHER -> "logout.verify"

InitFlow ==
    /\ users = <<>>
    /\ now = 0
    /\ nodeEnv = "test"
    /\ issued = <<>>
    /\ streak = [u \in ValidUsernames |-> 0]
    /\ resp = NoResponse
    /\ procs = [p \in Procs |-> IdleRequest]
    /\ tasks = <<>>
    /\ created = 0
    /\ ran = "none"
    /\ codec = NoCodec

\* a request reaches the first function of its route's stack
Arrive(route, body, header, userAgent) ==
    /\ procs[1].pc \in {"idle", "done"}
    /\ route = "login" => Len(issued) < MaxLogins
    /\ FlowStepTo([IdleRequest EXCEPT
                      !.pc = IF route = "tasks.list" THEN "auth" ELSE "validateBody",
                      !.route = route, !.body = body, !.header = header,
                      !.userAgent = userAgent])
    /\ UNCHANGED <<users, now, nodeEnv, issued, streak, tasks, created, ran, codec>>

\* validateBody: safeParse, and the 400 of a failed parse
ValidateBodyParse ==
    LET r == procs[1]
        success == IF r.route \in {"register", "login"}
                   THEN getUserSchema(nodeEnv, r.body)
                   ELSE refreshTokenSchema(r.body)
    IN  /\ r.pc = "validateBody"
        /\ FlowStepTo(IF ~success
                      THEN SendErrorReturn(r, ValidationFailed(r.route),
                                           "validateBody.next")
                      ELSE Goto(r, "validateBody.next"))
        /\ UNCHANGED <<users, now, nodeEnv, issued, streak, tasks, created, ran, codec>>

\* validateBody: req.body = result.data; next()
ValidateBodyNext ==
    LET r == procs[1]
    IN  /\ r.pc = "validateBody.next"
        /\ FlowStepTo(PassOn(r, HandlerEntry(r.route)))
        /\ UNCHANGED <<users, now, nodeEnv, issued, streak, tasks, created, ran, codec>>

\* auth: the header is split, a missing token is answered 401
AuthToken ==
    LET r == procs[1]
        token == BearerToken(r.header)
    IN  /\ r.pc = "auth"
        /\ FlowStepTo(IF token = NoField \/ token = EmptyString
                      THEN SendErrorReturn(r, NoTokenError, "auth.verify")
                      ELSE Goto(r, "auth.verify"))
        /\ UNCHANGED <<users, now, nodeEnv, issued, streak, tasks, created, ran, codec>>

\* auth: jwt.verify calls back with an error, answered 403, or with the payload
AuthVerify ==
    LET r == procs[1]
        verified == JwtVerify(BearerToken(r.header), Secret)
    IN  /\ r.pc = "auth.verify"
        /\ FlowStepTo(IF ~verified.ok
                      THEN SendErrorReturn(r, InvalidTokenError, "auth.next")
                      ELSE Goto(r, "auth.next"))
        /\ UNCHANGED <<users, now, nodeEnv, issued, streak, tasks, created, ran, codec>>

\* auth: req.user = user; next()
AuthNext ==
    LET r == procs[1]
    IN  /\ r.pc = "auth.next"
        /\ FlowStepTo(PassOn(r, "tasks.find"))
        /\ UNCHANGED <<users, now, nodeEnv, issued, streak, tasks, created, ran, codec>>

ListTasksCatch == sendError("tasks.list", 500, "Failed to fetch tasks", FALSE)

\* GET /auth/tasks: Task.find() resolves and the list is sent, or rejects
TasksFind(fails) ==
    LET r == procs[1]
    IN  /\ r.pc = "tasks.find"
        /\ FlowStepTo(IF fails
                      THEN Goto(r, "tasks.catch")
                      ELSE SendEnd(r, [Reply("tasks.list", 200, "") EXCEPT
                                          !.tasks = Find(tasks)]))
        /\ ran' = IF fails THEN ran ELSE "list"
        /\ UNCHANGED <<users, now, nodeEnv, issued, streak, tasks, created, codec>>

\* register: User.findOne({username}), and the 409 of a stored username
RegisterFlowFindOne(fails) ==
    LET r == procs[1]
    IN  /\ r.pc = "register.findOne"
        /\ FlowStepTo(IF fails
                      THEN Goto(r, "catch")
                      ELSE IF FindOne(users, r.body.username) # 0
                      THEN SendErrorReturn(
                               r, sendError("register", 409,
                                            "Username already exists", FALSE),
                               "register.hash")
                      ELSE Goto(r, "register.hash"))
        /\ UNCHANGED <<users, now, nodeEnv, issued, streak, tasks, created, ran, codec>>

\* register: bcrypt.hash
RegisterFlowHash(fails) ==
    LET r == procs[1]
    IN  /\ r.pc = "register.hash"
        /\ FlowStepTo(Goto(r, IF fails THEN "catch" ELSE "register.save"))
        /\ UNCHANGED <<users, now, nodeEnv, issued, streak, tasks, created, ran, codec>>

\* register: user.save() and the 201
RegisterFlowSave(fails) ==
    LET r == procs[1]
        hashed == BcryptHash(r.body.password, SaltRounds)
        saved == InsertOne(users, NewUser(r.body.username, hashed))
    IN  /\ r.pc = "register.save"
        /\ IF fails \/ ~saved.ok
           THEN /\ FlowStepTo(Goto(r, "catch"))
                /\ UNCHANGED users
           ELSE /\ FlowStepTo(SendEnd(r, Reply("register", 201, "User registered")))
                /\ users' = saved.users
        /\ UNCHANGED <<now, nodeEnv, issued, streak, tasks, created, ran, codec>>

\* login: User.findOne({username}), and the 401 of an unknown user
LoginFlowFindOne(fails) ==
    LET r == procs[1]
        i == FindOne(users, r.body.username)
    IN  /\ r.pc = "login.findOne"
        /\ FlowStepTo(IF fails
                      THEN Goto(r, "catch")
                      ELSE IF i = 0
                      THEN SendErrorReturn(r, UnknownUser, "login.compare")
                      ELSE [r EXCEPT !.doc = users[i], !.pc = "login.compare"])
        /\ UNCHANGED <<users, now, nodeEnv, issued, streak, tasks, created, ran, codec>>

\* login: bcrypt.compare(password, user.password), and the 401 of a
\* mismatch; reading a property of null throws
LoginFlowCompare(fails) ==
    LET r == procs[1]
    IN  /\ r.pc = "login.compare"
        /\ FlowStepTo(IF fails \/ r.doc = NoDoc
                      THEN Goto(r, "catch")
                      ELSE IF ~BcryptCompare(r.body.password, r.doc.password)
                      THEN SendErrorReturn(r, WrongPassword, "login.save")
                      ELSE Goto(r, "login.save"))
        /\ UNCHANGED <<users, now, nodeEnv, issued, streak, tasks, created, ran, codec>>

\* login: the tokens are signed, the record is pushed, user.save(), and
\* the 200 with both tokens
LoginFlowSave(fails) ==
    LET r == procs[1]
        i == FindOne(users, r.body.username)
        accessToken == LoginAccessToken(r.body.username, now)
        tokenId == GenerateSecureRandomString(Len(issued))
        refreshToken == LoginRefreshToken(r.body.username, tokenId, now)
        saved == SaveLogin(users, i, r.doc,
                           NewRecord(refreshToken, tokenId, r.userAgent, now))
    IN  /\ r.pc = "login.save"
        /\ IF fails \/ r.doc = NoDoc
           THEN /\ FlowStepTo(Goto(r, "catch"))
                /\ UNCHANGED <<users, issued, streak>>
           ELSE IF ~saved.ok
           THEN /\ FlowStepTo(Goto(r, "catch"))
                /\ UNCHANGED <<users, issued, streak>>
           ELSE /\ FlowStepTo(SendEnd(r, [Reply("login", 200, "") EXCEPT
                                             !.accessToken = accessToken,
                                             !.refreshToken = refreshToken]))
                /\ users' = saved.users
                /\ issued' = Append(issued, refreshToken)
                /\ streak' = [streak EXCEPT ![r.body.username] = @ + 1]
        /\ UNCHANGED <<now, nodeEnv, tasks, created, ran, codec>>

\* refresh: jwt.verify(refreshToken, refreshSecret) returns or throws
RefreshFlowVerify ==
    LET r == procs[1]
    IN  /\ r.pc = "refresh.verify"
        /\ FlowStepTo(Goto(r, IF JwtVerify(r.body.refreshToken, RefreshSecret).ok
                              THEN "refresh.findOne" ELSE "catch"))
        /\ UNCHANGED <<users, now, nodeEnv, issued, streak, tasks, created, ran, codec>>

\* refresh: User.findOne by username and token, and the 401 of no match
RefreshFlowFindOne(fails) ==
    LET r == procs[1]
        decoded == JwtVerify(r.body.refreshToken, RefreshSecret)
        i == FindOneWithToken(users, decoded.payload.username, r.body.refreshToken)
    IN  /\ r.pc = "refresh.findOne"
        /\ FlowStepTo(IF fails
                      THEN Goto(r, "catch")
                      ELSE IF i = 0
                      THEN SendErrorReturn(
                               r, sendError("refresh", 401,
                                            "Invalid refresh token", FALSE),
                               "refresh.save")
                      ELSE [r EXCEPT !.doc = users[i],
                                     !.index = TokenIndex(LoadedTokens(users[i]),
                                                          r.body.refreshToken),
                                     !.pc = "refresh.save"])
        /\ UNCHANGED <<users, now, nodeEnv, issued, streak, tasks, created, ran, codec>>

\* refresh: lastUsed is assigned when findIndex found the record,
\* user.save(), and the 200 with a new access token
RefreshFlowSave(fails) ==
    LET r == procs[1]
        i == FindOne(users, r.doc.username)
        saved == IF r.index = 0
                 THEN [ok |-> TRUE, users |-> users]
                 ELSE SaveTouch(users, i, r.doc, r.index, now)
    IN  /\ r.pc = "refresh.save"
        /\ IF fails \/ r.doc = NoDoc
           THEN /\ FlowStepTo(Goto(r, "catch"))
                /\ UNCHANGED users
           ELSE IF ~saved.ok
           THEN /\ FlowStepTo(Goto(r, "catch"))
                /\ UNCHANGED users
           ELSE /\ FlowStepTo(SendEnd(r, [Reply("refresh", 200, "") EXCEPT
                                             !.accessToken =
                                                 RefreshAccessToken(r.doc.username, now)]))
                /\ users' = saved.users
        /\ UNCHANGED <<now, nodeEnv, issued, streak, tasks, created, ran, codec>>

\* logout and logout-all: jwt.verify(refreshToken, refreshSecret)
LogoutFlowVerify ==
    LET r == procs[1]
    IN  /\ r.pc = "logout.verify"
        /\ FlowStepTo(Goto(r, IF JwtVerify(r.body.refreshToken, RefreshSecret).ok
                              THEN "logout.updateOne" ELSE "catch"))
        /\ UNCHANGED <<users, now, nodeEnv, issued, streak, tasks, created, ran, codec>>

\* logout and logout-all: User.updateOne ($pull or $unset), and the 200
LogoutFlowUpdateOne(fails) ==
    LET r == procs[1]
        done == IF r.route = "logout"
                THEN LogoutRoute(users, r.body)
                ELSE LogoutAllRoute(users, r.body)
    IN  /\ r.pc = "logout.updateOne"
        /\ IF fails
           THEN /\ FlowStepTo(Goto(r, "catch"))
                /\ UNCHANGED <<users, streak>>
           ELSE /\ FlowStepTo(SendEnd(r, done.resp))
                /\ users' = done.users
                /\ streak' = EndStreak(done, r.body)
        /\ UNCHANGED <<now, nodeEnv, issued, tasks, created, ran, codec>>

\* the response of the catch block of each handler
CatchResponse(route) ==
    CASE route = "register" -> RegisterCatch
      [] route = "login" -> LoginCatch
      [] route = "refresh" -> RefreshCatch
      [] route = "logout" -> LogoutCatch
      [] route = "logout-all" -> LogoutAllCatch
      [] OTHER -> ListTasksCatch

\* catch (err) { sendError(res, ...) }
HandlerCatch ==
    LET r == procs[1]
    IN  /\ r.pc \in {"catch", "tasks.catch"}
        /\ FlowStepTo(SendEnd(r, CatchResponse(r.route)))
        /\ UNCHANGED <<users, now, nodeEnv, issued, streak, tasks, created, ran, codec>>

\* a statement of the request in service runs
FlowStep ==
    \/ ValidateBodyParse
    \/ ValidateBodyNext
    \/ AuthToken
    \/ AuthVerify
    \/ AuthNext
    \/ \E fails \in BOOLEAN : TasksFind(fails)
    \/ \E fails \in BOOLEAN : RegisterFlowFindOne(fails)
    \/ \E fails \in BOOLEAN : RegisterFlowHash(fails)
    \/ \E fails \in BOOLEAN : RegisterFlowSave(fails)
    \/ \E fails \in BOOLEAN : LoginFlowFindOne(fails)
    \/ \E fails \in BOOLEAN : LoginFlowCompare(fails)
    \/ \E fails \in BOOLEAN : LoginFlowSave(fails)
    \/ RefreshFlowVerify
    \/ \E fails \in BOOLEAN : RefreshFlowFindOne(fails)
    \/ \E fails \in BOOLEAN : RefreshFlowSave(fails)
    \/ LogoutFlowVerify
    \/ \E fails \in BOOLEAN : LogoutFlowUpdateOne(fails)
    \/ HandlerCatch

\* a request arrives when the connection is free
FlowArrive ==
    \/ \E body \in RegisterBodies(FlowAccounts) :
          Arrive("register", body, NoHeader, "")
    \/ \E body \in LoginBodies(FlowAccounts), userAgent \in UserAgents :
          Arrive("login", body, NoHeader, userAgent)
    \/ \E route \in {"refresh", "logout", "logout-all"}, body \in TokenBodies :
          Arrive(route, body, NoHeader, "")
    \/ \E header \in Headers :
          Arrive("tasks.list", [username |-> Undefined, password |-> Undefined],
                 header, "")

NextFlow == FlowArrive \/ FlowStep

\* the event loop runs a statement that is ready to run: every awaited
\* call settles
SpecFlow == InitFlow /\ [][NextFlow]_vars /\ WF_vars(FlowStep)

(***************************************************************************)
(* Vocabulary of the properties.                                           *)
(***************************************************************************)
\* the response Refresh would give to token in the collection us
RefreshOf(us, token) == RefreshRoute(us, now, [refreshToken |-> token]).resp

AcceptedIn(us, token) ==
    RefreshOf(us, token).status = 200 /\ RefreshOf(us, token).accessToken # NoField

RejectedIn(us, token) ==
    /\ RefreshOf(us, token).status = 401
    /\ RefreshOf(us, token).message = "Invalid refresh token"
    /\ RefreshOf(us, token).accessToken = NoField

\* token verifies under the refresh secret
VerifiesAsRefresh(token) == token.str = "jwt" /\ token.secret = RefreshSecret

\* the user named in the token exists and holds a record with this token
HoldsRecord(us, token) ==
    \E i \in 1..Len(us) :
        /\ us[i].username = token.payload.username
        /\ \E k \in 1..Len(us[i].refreshTokens) :
              us[i].refreshTokens[k].token = token

\* the stored records of username
RecordsOf(us, username) ==
    IF FindOne(us, username) = 0 THEN <<>>
    ELSE us[FindOne(us, username)].refreshTokens

\* the refresh tokens issued to username, oldest first
IssuedTo(username) ==
    SelectSeq(issued, LAMBDA t : t.payload.username = username)

\* bodies whose refreshToken passes validateBody
ValidTokenBodies == {b \in TokenBodies : refreshTokenSchema(b)}

(***************************************************************************)
(* C1.  Refresh(t), for a token string t that passes body validation,      *)
(* answers 200 with an access token if and only if t verifies under the    *)
(* refresh secret and the user named in its payload exists and holds a     *)
(* record whose token equals t; in every other case it answers 401         *)
(* "Invalid refresh token" without an access token.                        *)
(***************************************************************************)
C1_RefreshIffRecord ==
    [][resp'.op = "refresh" => \A body \in ValidTokenBodies :
          Refresh(body) =>
              LET t == body.refreshToken
                  live == VerifiesAsRefresh(t) /\ HoldsRecord(users, t)
              IN  /\ (resp'.status = 200 /\ resp'.accessToken # NoField) <=> live
                  /\ ~live => /\ resp'.status = 401
                              /\ resp'.message = "Invalid refresh token"
                              /\ resp'.accessToken = NoField]_vars

\* a refresh was accepted while another issued token is no longer accepted
C1_Witness ==
    /\ resp.op = "refresh"
    /\ resp.status = 200
    /\ \E t \in IssuedRefresh : ~HoldsRecord(users, t)

(***************************************************************************)
(* C2.  After k successful logins of one user with no logout or logout-all *)
(* of that user in between, Refresh accepts the tokens of the last         *)
(* min(k, 5) of these logins and rejects the tokens of the earlier ones.   *)
(***************************************************************************)
C2_NewestFiveAccepted ==
    \A u \in ValidUsernames :
        LET mine == IssuedTo(u)
            k == streak[u]
            n == Len(mine)
        IN  \A j \in 1..k :
                IF j > k - MaxRefreshTokens
                THEN AcceptedIn(users, mine[n - k + j])
                ELSE RejectedIn(users, mine[n - k + j])

\* six logins in a row: the cap has evicted the first token
C2_Witness == \E u \in ValidUsernames : streak[u] > MaxRefreshTokens

(***************************************************************************)
(* C3.  With requests served one at a time, no user ever holds more than   *)
(* five refresh-token records.                                             *)
(***************************************************************************)
C3_AtMostFiveRecords ==
    \A i \in 1..Len(users) : Len(users[i].refreshTokens) <= MaxRefreshTokens

\* five records are held after more than five tokens were issued
C3_Witness ==
    /\ Len(issued) > MaxRefreshTokens
    /\ \E i \in 1..Len(users) : Len(users[i].refreshTokens) = MaxRefreshTokens

(***************************************************************************)
(* C4.  After Logout(t) answers 200 for a refresh token t of user u,       *)
(* Refresh rejects t, every other refresh token of u that Refresh accepted *)
(* before the logout is still accepted, and the records of u are the       *)
(* records before the logout without those whose token is t, in the same   *)
(* order.                                                                  *)
(***************************************************************************)
C4_LogoutRemovesOnlyTarget ==
    [][resp'.op = "logout" => \A body \in ValidTokenBodies :
          (Logout(body) /\ resp'.status = 200) =>
              LET t == body.refreshToken
                  u == t.payload.username
              IN  /\ RejectedIn(users', t)
                  /\ \A other \in IssuedRefresh \ {t} :
                        (other.payload.username = u /\ AcceptedIn(users, other))
                            => AcceptedIn(users', other)
                  /\ RecordsOf(users', u) =
                        SelectSeq(RecordsOf(users, u), LAMBDA r : r.token # t)]_vars

\* after a logout, one token of a user is rejected and another still accepted
C4_Witness ==
    /\ resp.op = "logout"
    /\ resp.status = 200
    /\ \E t \in IssuedRefresh, other \in IssuedRefresh :
          /\ t.payload.username = other.payload.username
          /\ RejectedIn(users, t)
          /\ AcceptedIn(users, other)

(***************************************************************************)
(* C5.  After LogoutAll(t) answers 200 for a refresh token t naming user   *)
(* u, u holds no record and Refresh rejects every refresh token issued to  *)
(* u so far, t included.                                                   *)
(***************************************************************************)
C5_LogoutAllRevokesAll ==
    [][resp'.op = "logout-all" => \A body \in ValidTokenBodies :
          (LogoutAll(body) /\ resp'.status = 200) =>
              LET t == body.refreshToken
                  u == t.payload.username
              IN  /\ RecordsOf(users', u) = <<>>
                  /\ RejectedIn(users', t)
                  /\ \A k \in 1..Len(IssuedTo(u)) :
                        RejectedIn(users', IssuedTo(u)[k])]_vars

\* logout-all has emptied an account that two tokens were issued to
C5_Witness ==
    /\ resp.op = "logout-all"
    /\ resp.status = 200
    /\ \E u \in ValidUsernames :
          /\ Len(IssuedTo(u)) >= 2
          /\ FindOne(users, u) # 0
          /\ RecordsOf(users, u) = <<>>

(***************************************************************************)
(* C6.  The access token of every successful Login(u, password) passes the *)
(* gate, and the identity the gate attaches for the handler behind it is   *)
(* username u; a request through the gate leaves the collection untouched. *)
(***************************************************************************)
C6_LoginTokenPassesGate ==
    [][/\ resp'.op = "login" =>
             \A body \in LoginBodies(UsernameInputs), userAgent \in UserAgents :
                (Login(body, userAgent, MaxLogins) /\ resp'.status = 200) =>
                    LET header == <<"Bearer", resp'.accessToken>> IN
                    /\ auth(header).next
                    /\ auth(header).user.username = body.username
                    /\ AuthRoute(header).status = 200
                    /\ AuthRoute(header).user = body.username
       /\ resp'.op = "auth" =>
             \A header \in Headers : GetAuth(header) => users' = users]_vars

\* the gate has let through the access token of a login
C6_Witness ==
    /\ resp.op = "auth"
    /\ resp.status = 200
    /\ \E k \in 1..Len(issued) : issued[k].payload.username = resp.user

(***************************************************************************)
(* C7.  The access token of every successful Refresh(t) passes the gate    *)
(* and names the username embedded in t, which is the username of the one  *)
(* user whose record matched t and of the login t was issued to.           *)
(***************************************************************************)
C7_RefreshTokenNamesOwner ==
    [][resp'.op = "refresh" => \A body \in ValidTokenBodies :
          (Refresh(body) /\ resp'.status = 200) =>
              LET t == body.refreshToken
                  header == <<"Bearer", resp'.accessToken>>
              IN  /\ auth(header).next
                  /\ auth(header).user.username = t.payload.username
                  /\ t \in IssuedRefresh
                  /\ \A i \in 1..Len(users) :
                        (\E k \in 1..Len(users[i].refreshTokens) :
                             users[i].refreshTokens[k].token = t)
                            => users[i].username = auth(header).user.username]_vars

\* a refresh succeeded while two users hold records
C7_Witness ==
    /\ resp.op = "refresh"
    /\ resp.status = 200
    /\ auth(<<"Bearer", resp.accessToken>>).next
    /\ \A u \in ValidUsernames : RecordsOf(users, u) # <<>>

(***************************************************************************)
(* C8.  Refresh with a string that does not verify, or with an issued      *)
(* token whose record is no longer stored, answers 401 "Invalid refresh    *)
(* token" and leaves the collection, every lastUsed included, unchanged.   *)
(***************************************************************************)
C8_RejectedRefreshChangesNothing ==
    [][resp'.op = "refresh" => \A body \in ValidTokenBodies :
          (/\ Refresh(body)
           /\ \/ ~VerifiesAsRefresh(body.refreshToken)
              \/ /\ body.refreshToken \in IssuedRefresh
                 /\ ~HoldsRecord(users, body.refreshToken))
          => /\ resp'.status = 401
             /\ resp'.message = "Invalid refresh token"
             /\ users' = users]_vars

\* a refresh was rejected while a record older than the clock is stored and
\* an issued token has lost its record
C8_Witness ==
    /\ resp.op = "refresh"
    /\ resp.status = 401
    /\ \E t \in IssuedRefresh : ~HoldsRecord(users, t)
    /\ \E i \in 1..Len(users) : \E k \in 1..Len(users[i].refreshTokens) :
          users[i].refreshTokens[k].lastUsed < now

(***************************************************************************)
(* C9.  Register for a username that is not stored answers 201 and stores  *)
(* one user; Register for a stored username answers 409 and leaves the     *)
(* collection (password hash and records of the existing user) unchanged;  *)
(* the collection never holds two users with one username.                 *)
(***************************************************************************)
UsernamesUnique ==
    \A i, j \in 1..Len(users) : users[i].username = users[j].username => i = j

C9_SecondRegisterIs409 ==
    /\ [][resp'.op = "register" => \A body \in RegisterBodies(UsernameInputs) :
             (Register(body) /\ getUserSchema(nodeEnv, body)) =>
                 IF \E i \in 1..Len(users) : users[i].username = body.username
                 THEN /\ resp'.status = 409
                      /\ resp'.message = "Username already exists"
                      /\ users' = users
                 ELSE /\ resp'.status = 201
                      /\ Len(users') = Len(users) + 1
                      /\ SubSeq(users', 1, Len(users)) = users
                      /\ users'[Len(users')].username = body.username]_vars
    /\ []UsernamesUnique

\* a second registration was answered 409 for a user who holds a record
C9_Witness ==
    /\ resp.op = "register"
    /\ resp.status = 409
    /\ \E i \in 1..Len(users) : users[i].refreshTokens # <<>>

(***************************************************************************)
(* C10.  When two Register calls for one new username both pass the        *)
(* existence check before either writes, the call whose save hits the      *)
(* unique index is answered 409.                                           *)
(***************************************************************************)
C10_LostRaceIs409 ==
    [][\A p \in Procs :
          (RegisterSave(p) /\ FindOne(users, procs[p].body.username) # 0)
              => procs'[p].resp.status = 409]_vars

(***************************************************************************)
(* C11.  Login for an unknown username and Login for a stored username     *)
(* with a wrong password get the same response, 401 with the message       *)
(* "Invalid credentials" and no details; neither mints a token nor changes *)
(* a stored record.                                                        *)
(***************************************************************************)
\* the body passes validation and names no user, or a user with another password
LoginFails(body) ==
    /\ getUserSchema(nodeEnv, body)
    /\ \/ FindOne(users, body.username) = 0
       \/ ~BcryptCompare(body.password, users[FindOne(users, body.username)].password)

C11_LoginFailuresAlike ==
    [][resp'.op = "login" =>
          \A body \in LoginBodies(UsernameInputs), userAgent \in UserAgents :
             (Login(body, userAgent, MaxLogins) /\ LoginFails(body)) =>
                 /\ resp'.status = 401
                 /\ resp'.message = "Invalid credentials"
                 /\ ~resp'.details
                 /\ resp'.accessToken = NoField
                 /\ resp'.refreshToken = NoField
                 /\ users' = users
                 /\ issued' = issued
                 /\ \A other \in LoginBodies(UsernameInputs) :
                       LoginFails(other) =>
                           LoginRoute(users, nodeEnv, now, Len(issued),
                                      other, userAgent).resp = resp']_vars

\* a login was refused while one username is stored and another is not
C11_Witness ==
    /\ resp.op = "login"
    /\ resp.status = 401
    /\ \E u \in ValidUsernames : FindOne(users, u) # 0
    /\ \E u \in ValidUsernames : FindOne(users, u) = 0

(***************************************************************************)
(* C12.  Every request to a protected route (the greeting and the task     *)
(* routes) ends at the gate in exactly one of three ways: the header       *)
(* carries no token and the answer is 401 "No token"; it carries a token   *)
(* that fails verification under the access secret and the answer is 403   *)
(* "Invalid token"; it carries a token that verifies and the request is    *)
(* passed on with the identity decoded from the token.                     *)
(***************************************************************************)
\* what each protected route would do now with a request carrying header
ProtectedResults(header) ==
    {GreetingRoute(tasks, created, header),
     ListTasksRoute(tasks, created, header)}
        \cup {CreateTaskRoute(tasks, created, now, header, body) :
                  body \in TaskBodies}
        \cup {UpdateTaskRoute(tasks, created, now, header, params, body) :
                  params \in TaskParams, body \in TaskBodies}
        \cup {DeleteTaskRoute(tasks, created, header, params) :
                  params \in TaskParams}

PublicOps == {"register", "login", "refresh", "logout", "logout-all"}

\* token verifies under the access secret
VerifiesAsAccess(token) == token.str = "jwt" /\ token.secret = Secret

\* the response was sent by the gate
FromGate(response) == response.op = "auth" /\ response.status \in {401, 403}

\* the token a header carries: its second word, if it has one
Carried(header) == IF Len(header) >= 2 THEN header[2] ELSE NoField

\* r is the outcome the gate owes a request with this header
GateOutcome(header, r) ==
    LET token == Carried(header) IN
    IF token = NoField
    THEN /\ r.resp.status = 401
         /\ r.resp.message = "No token"
         /\ r.ran = "none"
    ELSE IF ~VerifiesAsAccess(token)
    THEN /\ r.resp.status = 403
         /\ r.resp.message = "Invalid token"
         /\ r.ran = "none"
    ELSE /\ ~FromGate(r.resp)
         /\ r.ran # "none" \/ r.resp.status = 400
         /\ r.ran = "greeting" => r.resp.user = token.payload.username
         /\ r.ran = "create" => r.resp.tasks[1].username = token.payload.username

NothingRan(r) ==
    /\ r.ran = "none"
    /\ FromGate(r.resp)
    /\ r.resp.tasks = <<>>
    /\ r.tasks = tasks
    /\ r.created = created

C13_GateBeforeHandler ==
    \A header \in TaskHeaders :
        ~VerifiesAsAccess(Carried(header)) =>
            \A r \in ProtectedResults(header) : NothingRan(r)

\* a request without a token was stopped while a task is stored
C13_Witness ==
    /\ resp.op = "auth"
    /\ resp.status = 401
    /\ ran = "none"
    /\ tasks # <<>>

(***************************************************************************)
(* C14.  For two different users A and B: the task list returned to B      *)
(* never contains a task created by A, and an update or delete by B of a   *)
(* stored task that A created answers 404 and leaves the task unchanged.   *)
(***************************************************************************)
C14_TasksIsolated ==
    [][resp'.op \notin PublicOps =>
          \A header \in TaskHeaders :
             auth(header).next =>
                 LET B == auth(header).user.username
                     foreign(params) ==
                         /\ taskIdSchema(params)
                         /\ FindById(tasks, params.id) # 0
                         /\ tasks[FindById(tasks, params.id)].username # B
                 IN  /\ ListTasks(header) =>
                           \A k \in 1..Len(resp'.tasks) :
                               resp'.tasks[k].username = B
                     /\ \A params \in TaskParams :
                           (/\ foreign(params)
                            /\ \/ DeleteTask(header, params)
                               \/ \E body \in TaskBodies :
                                     /\ updateTaskSchema(body)
                                     /\ UpdateTask(header, params, body))
                           => /\ resp'.status = 404
                              /\ tasks' = tasks]_vars

(***************************************************************************)
(* C15.  The gate accepts an access token only within its expiry window:   *)
(* once the clock has reached the token's issue time plus the window, the  *)
(* gate answers 403 "Invalid token", for the tokens of Login and of        *)
(* Refresh.  A tick of the clock is longer than either window.             *)
(***************************************************************************)
C15_AccessTokenExpires ==
    \A tok \in Received \cup IssuedAccess :
        (VerifiesAsAccess(tok) /\ now >= tok.payload.iat + ExpiresIn) =>
            /\ ~auth(<<"Bearer", tok>>).next
            /\ AuthRoute(<<"Bearer", tok>>).status = 403
            /\ AuthRoute(<<"Bearer", tok>>).message = "Invalid token"

(***************************************************************************)
(* C16.  Refresh accepts a refresh token only within its expiry window:    *)
(* once the clock has reached the token's issue time plus the window,      *)
(* Refresh answers 401 "Invalid refresh token" even though the token's     *)
(* record is still stored.                                                 *)
(***************************************************************************)
C16_RefreshTokenExpires ==
    \A t \in IssuedRefresh :
        (HoldsRecord(users, t) /\ now >= t.payload.iat + RefreshExpiresIn) =>
            RejectedIn(users, t)

Removes(t) ==
    LET u == t.payload.username IN
    /\ resp'.status = 200
    /\ \/ resp'.op = "logout" /\ Logout([refreshToken |-> t])
       \/ resp'.op = "logout-all" /\ RecordsOf(users', u) = <<>>
       \/ /\ resp'.op = "login"
          /\ resp'.refreshToken.payload.username = u
          /\ Len(RecordsOf(users, u)) = MaxRefreshTokens
          /\ RecordsOf(users, u)[1].token = t

C18_RefreshKeepsToken ==
    [][/\ resp'.op = "refresh" =>
             \A body \in ValidTokenBodies :
                (Refresh(body) /\ resp'.status = 200) =>
                    /\ AcceptedIn(users', body.refreshToken)
                    /\ resp'.accessToken # NoField
                    /\ resp'.refreshToken = NoField
       /\ \A t \in IssuedRefresh :
             (AcceptedIn(users, t) /\ ~AcceptedIn(users', t)) => Removes(t)]_vars

\* a refresh succeeded after the cap had evicted an older token
C18_Witness ==
    /\ resp.op = "refresh"
    /\ resp.status = 200
    /\ Len(issued) > MaxRefreshTokens
    /\ \E t \in IssuedRefresh : RejectedIn(users, t)
    /\ \E t \in IssuedRefresh : AcceptedIn(users, t)

(***************************************************************************)
(* C19.  Logout is idempotent: Logout(t) for a refresh token t that        *)
(* verifies answers 200 whether or not a record with token t is stored     *)
(* (logged out before, evicted, or no user of that name), and a second     *)
(* Logout(t) answers 200 and leaves every user's records as the first      *)
(* left them.                                                              *)
(***************************************************************************)
\* a verifying token that names a username no user has is logged out alike
OrphanLogoutSucceeds ==
    \A u \in ValidUsernames :
        FindOne(users, u) = 0 =>
            LET r == LogoutRoute(users,
                         [refreshToken |-> LoginRefreshToken(u, 1, now)])
            IN  r.resp.status = 200 /\ r.users = users

C19_LogoutIdempotent ==
    /\ [][resp'.op = "logout" =>
             \A body \in ValidTokenBodies :
                (Logout(body) /\ VerifiesAsRefresh(body.refreshToken)) =>
                    /\ resp'.status = 200
                    /\ resp'.message = "Logged out successfully"
                    /\ LogoutRoute(users', body).resp = resp'
                    /\ LogoutRoute(users', body).users = users']_vars
    /\ []OrphanLogoutSucceeds

\* a logout was answered 200 while the cap has evicted a token, so that
\* tokens with and without a record can be presented
C19_Witness ==
    /\ resp.op = "logout"
    /\ resp.status = 200
    /\ Len(issued) > MaxRefreshTokens
    /\ \E t \in IssuedRefresh : ~HoldsRecord(users, t)
    /\ \E t \in IssuedRefresh : HoldsRecord(users, t)

(***************************************************************************)
(* C20.  Logout and LogoutAll with a refresh token that fails verification *)
(* answer 401 "Invalid refresh token" and leave every user's stored        *)
(* records unchanged.                                                      *)
(***************************************************************************)
C20_BadTokenLogoutRefused ==
    [][resp'.op \in {"logout", "logout-all"} =>
          \A body \in ValidTokenBodies :
             (/\ ~VerifiesAsRefresh(body.refreshToken)
              /\ Logout(body) \/ LogoutAll(body))
             => /\ resp'.status = 401
                /\ resp'.message = "Invalid refresh token"
                /\ users' = users]_vars

\* a logout-all was refused while a record is stored
C20_Witness ==
    /\ resp.op = "logout-all"
    /\ resp.status = 401
    /\ \E i \in 1..Len(users) : users[i].refreshTokens # <<>>

(***************************************************************************)
(* C21.  A request whose body fails its schema (register or login with a   *)
(* username or password the schema rejects, refresh, logout or logout-all  *)
(* with a missing or empty refreshToken) is answered 400 with the          *)
(* field-level details, and the handler does not run: the answer is the    *)
(* one an empty collection would give, no document changes and no token is *)
(* minted.                                                                 *)
(***************************************************************************)
LongUsername == [i \in 1..(UsernameMax + 1) |-> "a"]
LongPassword == [i \in 1..(PasswordMax + 1) |-> "a"]

BadUsernames == {Undefined, TooShort, LongUsername, <<"a", " ", "b">>}
BadPasswords == {Undefined, WeakPw, LongPassword}

\* bodies with at least one field the loose user schema rejects
InvalidUserBodies ==
    [username : BadUsernames, password : BadPasswords \cup LoginPasswords]
        \cup [username : ValidUsernames, password : BadPasswords]

InvalidTokenBodies == [refreshToken : {NoField, EmptyString}]

\* the answer validateBody gives, with nothing of the handler's in it
StoppedByValidation(r, us) ==
    /\ r.users = us
    /\ r.resp.status = 400
    /\ r.resp.details
    /\ r.resp.accessToken = NoField
    /\ r.resp.refreshToken = NoField

InvalidBodiesStopped ==
    /\ \A b \in InvalidUserBodies :
          /\ StoppedByValidation(RegisterRoute(users, nodeEnv, b), users)
          /\ RegisterRoute(users, nodeEnv, b).resp = RegisterRoute(<<>>, nodeEnv, b).resp
          /\ StoppedByValidation(
                 LoginRoute(users, nodeEnv, now, Len(issued), b, "Device1"), users)
          /\ LoginRoute(users, nodeEnv, now, Len(issued), b, "Device1").resp
                 = LoginRoute(<<>>, nodeEnv, now, 0, b, "Device1").resp
    /\ \A b \in InvalidTokenBodies :
          /\ StoppedByValidation(RefreshRoute(users, now, b), users)
          /\ RefreshRoute(users, now, b).resp = RefreshRoute(<<>>, now, b).resp
          /\ StoppedByValidation(LogoutRoute(users, b), users)
          /\ LogoutRoute(users, b).resp = LogoutRoute(<<>>, b).resp
          /\ StoppedByValidation(LogoutAllRoute(users, b), users)
          /\ LogoutAllRoute(users, b).resp = LogoutAllRoute(<<>>, b).resp

C21_InvalidBodyStopsRequest ==
    /\ [][resp'.status = 400 =>
             /\ resp'.details
             /\ resp'.accessToken = NoField /\ resp'.refreshToken = NoField
             /\ users' = users
             /\ issued' = issued]_vars
    /\ []InvalidBodiesStopped

\* a body was refused by validation while a user with stored records exists
C21_Witness ==
    /\ resp.status = 400
    /\ resp.op \in {"login", "refresh"}
    /\ \E i \in 1..Len(users) : users[i].refreshTokens # <<>>

(***************************************************************************)
(* C22.  A storage failure during Register, Login, Refresh, Logout or      *)
(* LogoutAll surfaces as a 500 response: whenever a request reaches a      *)
(* store call that rejects, its answer has status 500.                     *)
(***************************************************************************)
C22_StorageFailureIs500 ==
    /\ \A body \in RegisterBodies(FailAccounts), failAt \in FailPoints :
          LET r == RegisterRouteFailing(users, nodeEnv, body, failAt)
          IN  r.failed => r.resp.status = 500
    /\ \A body \in LoginBodies(FailAccounts), failAt \in FailPoints :
          LET r == LoginRouteFailing(users, nodeEnv, body, failAt)
          IN  r.failed => r.resp.status = 500
    /\ \A body \in TokenBodies :
          /\ \A failAt \in FailPoints :
                LET r == RefreshRouteFailing(users, body, failAt)
                IN  r.failed => r.resp.status = 500
          /\ LET r == LogoutRouteFailing(users, body)
             IN  r.failed => r.resp.status = 500
          /\ LET r == LogoutAllRouteFailing(users, body)
             IN  r.failed => r.resp.status = 500

(***************************************************************************)
(* C23.  Every successful Login mints its refresh token with a token id no *)
(* earlier Login used, so the refresh tokens of any two successful Logins  *)
(* differ, also for the same user within the same second, and the access   *)
(* token and the refresh token of one Login differ.                        *)
(***************************************************************************)
C23_RefreshTokensDistinct ==
    /\ \A j, k \in 1..Len(issued) :
          j # k => /\ issued[j] # issued[k]
                   /\ issued[j].payload.tokenId # issued[k].payload.tokenId
    /\ (resp.op = "login" /\ resp.status = 200) =>
          resp.accessToken # resp.refreshToken

\* one user logged in twice within the same second
C23_Witness ==
    /\ resp.op = "login"
    /\ resp.status = 200
    /\ \E j, k \in 1..Len(issued) :
          /\ j # k
          /\ issued[j].payload.username = issued[k].payload.username
          /\ issued[j].payload.iat = issued[k].payload.iat

(***************************************************************************)
(* C24.  An access token cannot be revoked: the gate accepts every access  *)
(* token a Login has issued in every later state, also after a Logout or   *)
(* LogoutAll of its user has removed the user's refresh-token records.     *)
(***************************************************************************)
\* the gate lets token through
GateAccepts(tok) ==
    /\ auth(<<"Bearer", tok>>).next
    /\ auth(<<"Bearer", tok>>).user.username = tok.payload.username
    /\ AuthRoute(<<"Bearer", tok>>).status = 200

C24_AccessTokenSurvivesLogout ==
    /\ [][(resp'.op \in {"logout", "logout-all"} /\ resp'.status = 200) =>
             \A tok \in IssuedAccess : GateAccepts(tok) => GateAccepts(tok)']_vars
    /\ [](\A tok \in IssuedAccess : GateAccepts(tok))

\* a LogoutAll succeeded, no record is left, and access tokens are out
C24_Witness ==
    /\ resp.op = "logout-all"
    /\ resp.status = 200
    /\ IssuedAccess # {}
    /\ \A i \in 1..Len(users) : users[i].refreshTokens = <<>>

(***************************************************************************)
(* C25.  Eviction goes by insertion order, not by lastUsed: a successful   *)
(* Login of a user who holds five records removes the record inserted      *)
(* first and keeps the other four in their order, whichever record a       *)
(* Refresh used last.                                                      *)
(***************************************************************************)
C25_EvictionByInsertionOrder ==
    [][(issued' # issued /\ resp'.op = "login" /\ resp'.status = 200) =>
          LET u == resp'.refreshToken.payload.username
              old == RecordsOf(users, u)
              new == RecordsOf(users', u)
          IN  Len(old) = MaxRefreshTokens =>
                 /\ Len(new) = MaxRefreshTokens
                 /\ \A k \in 1..(MaxRefreshTokens - 1) : new[k] = old[k + 1]
                 /\ new[MaxRefreshTokens].token = resp'.refreshToken
                 /\ \A k \in 2..MaxRefreshTokens :
                       old[1].tokenId < old[k].tokenId]_vars

\* a Login has evicted a record at a time when the clock had advanced past
\* the creation of every record that stayed
C25_Witness ==
    /\ resp.op = "login"
    /\ resp.status = 200
    /\ Len(issued) > MaxRefreshTokens
    /\ ~HoldsRecord(users, issued[1])
    /\ \A k \in 1..(MaxRefreshTokens - 1) :
          RecordsOf(users, Ann)[k].lastUsed < now

(***************************************************************************)
(* C26.  A successful Refresh(t) changes only the lastUsed field of the    *)
(* one record whose token equals t, which becomes the current time: the    *)
(* record's other fields, its position, the number and order of the        *)
(* user's records, every other record and every other user are unchanged.  *)
(***************************************************************************)
C26_RefreshTouchesOneRecord ==
    [][(resp'.op = "refresh" /\ resp'.status = 200) =>
          \A body \in IssuedBodies :
             Refresh(body) =>
                /\ issued' = issued
                /\ Len(users') = Len(users)
                /\ \A i \in 1..Len(users) :
                      /\ users'[i].username = users[i].username
                      /\ users'[i].password = users[i].password
                      /\ users'[i].hasTokens = users[i].hasTokens
                      /\ users'[i].v = users[i].v
                      /\ Len(users'[i].refreshTokens) = Len(users[i].refreshTokens)
                      /\ \A k \in 1..Len(users[i].refreshTokens) :
                            LET a == users[i].refreshTokens[k]
                                b == users'[i].refreshTokens[k]
                            IN  /\ [b EXCEPT !.lastUsed = a.lastUsed] = a
                                /\ b.lastUsed = IF a.token = body.refreshToken
                                                THEN now ELSE a.lastUsed]_vars

\* a Refresh has moved the lastUsed of one record while another record,
\* created before the current tick, kept its own
C26_Witness ==
    /\ resp.op = "refresh"
    /\ resp.status = 200
    /\ \E i, j \in 1..Len(users) :
          \E k \in 1..Len(users[i].refreshTokens),
             m \in 1..Len(users[j].refreshTokens) :
                /\ users[i].refreshTokens[k].lastUsed
                       > users[i].refreshTokens[k].createdAt
                /\ users[j].refreshTokens[m].lastUsed < now

(***************************************************************************)
(* C27.  Every operation changes at most one user document, the one named  *)
(* by the request's username (Register, Login) or by the token's username  *)
(* (Refresh, Logout, LogoutAll); the documents of all other users are      *)
(* unchanged, so a Logout or LogoutAll for one user leaves every refresh   *)
(* token of another user accepted.                                         *)
(***************************************************************************)
\* the username a 200 answer of Login or Refresh was minted for
MintedFor(response) ==
    IF response.op = "login" THEN response.refreshToken.payload.username
    ELSE response.accessToken.payload.username

C27_OneUserPerOperation ==
    [][/\ Len(users') >= Len(users)
       /\ \A i, j \in 1..Len(users) :
             (users'[i] # users[i] /\ users'[j] # users[j]) => i = j
       /\ Len(users') > Len(users) =>
             \A i \in 1..Len(users) : users'[i] = users[i]
       /\ (resp'.op \in {"login", "refresh"} /\ resp'.status = 200) =>
             \A i \in 1..Len(users) :
                users'[i] # users[i] => users[i].username = MintedFor(resp')
       /\ resp'.op \in {"logout", "logout-all"} =>
             \A body \in IssuedBodies :
                (Logout(body) \/ LogoutAll(body)) =>
                   /\ \A i \in 1..Len(users) :
                         users[i].username # body.refreshToken.payload.username
                             => users'[i] = users[i]
                   /\ \A t \in IssuedRefresh :
                         (/\ t.payload.username
                                 # body.refreshToken.payload.username
                          /\ AcceptedIn(users, t))
                         => AcceptedIn(users', t)]_vars

\* a LogoutAll has emptied one user's records while another user holds one
C27_Witness ==
    /\ resp.op = "logout-all"
    /\ resp.status = 200
    /\ \E i, j \in 1..Len(users) :
          /\ ~users[i].hasTokens
          /\ users[j].refreshTokens # <<>>
          /\ \E t \in IssuedRefresh : t.payload.username = users[i].username

(***************************************************************************)
(* C28.  When Logins of one user interleave, the user's stored record      *)
(* sequence has at most five records once all of them have completed.      *)
(***************************************************************************)
NoneInFlight == \A p \in Procs : procs[p].pc \in {"idle", "done"}

C28_CapHoldsAfterInterleavedLogins ==
    NoneInFlight =>
        \A i \in 1..Len(users) : Len(users[i].refreshTokens) <= MaxRefreshTokens

(***************************************************************************)
(* C29.  When two Logins of one user interleave and both answer 200, both  *)
(* returned refresh tokens have a record afterwards and a following        *)
(* Refresh accepts both, provided the user held fewer than five records    *)
(* before: the save of a Login that loaded fewer than five records stores  *)
(* its own record and removes no record stored in the meantime.            *)
(***************************************************************************)
C29_InterleavedLoginsKeepBoth ==
    [][\A p \in Procs :
          (/\ procs[p].pc = "login.save"
           /\ procs'[p].pc = "done"
           /\ procs'[p].resp.status = 200
           /\ Len(LoadedTokens(procs[p].doc)) < MaxRefreshTokens)
          => /\ HoldsRecord(users', procs'[p].resp.refreshToken)
             /\ AcceptedIn(users', procs'[p].resp.refreshToken)
             /\ \A t \in IssuedRefresh :
                   HoldsRecord(users, t) =>
                      HoldsRecord(users', t) /\ AcceptedIn(users', t)]_vars

\* both connections were answered 200 by Login, both tokens have a record,
\* and the saves interleaved: six records are stored, which a Login that
\* loads five records or more rules out
C29_Witness ==
    /\ NoneInFlight
    /\ \A p \in Procs :
          /\ procs[p].resp.op = "login"
          /\ procs[p].resp.status = 200
          /\ HoldsRecord(users, procs[p].resp.refreshToken)
          /\ AcceptedIn(users, procs[p].resp.refreshToken)
    /\ procs[1].resp.refreshToken # procs[2].resp.refreshToken
    /\ \E i \in 1..Len(users) : Len(users[i].refreshTokens) > MaxRefreshTokens

(***************************************************************************)
(* C30.  Revocation is permanent under interleaving: a refresh token whose *)
(* record a Logout or LogoutAll has removed never has a record again and   *)
(* is never accepted by Refresh again, also when a Login or Refresh that   *)
(* loaded the document before the logout saves it afterwards.              *)
(***************************************************************************)
C30_RevocationPermanent ==
    [][\A t \in IssuedRefresh :
          ~HoldsRecord(users, t) =>
              ~HoldsRecord(users', t) /\ ~AcceptedIn(users', t)]_vars

(***************************************************************************)
(* C31.  In every reachable state, every record stored under a user holds  *)
(* a token whose signed payload names that user and carries the record's   *)
(* tokenId, and the tokenIds and the token strings of one user's records   *)
(* are pairwise distinct.                                                  *)
(***************************************************************************)
RecordMatchesToken(username, r) ==
    /\ r.token.str = "jwt"
    /\ r.token.secret = RefreshSecret
    /\ r.token.payload.username = username
    /\ r.token.payload.tokenId = r.tokenId

C31_RecordsMatchTokens ==
    \A i \in 1..Len(users) :
        /\ \A k \in 1..Len(users[i].refreshTokens) :
              RecordMatchesToken(users[i].username, users[i].refreshTokens[k])
        /\ \A k, m \in 1..Len(users[i].refreshTokens) :
              k # m => /\ users[i].refreshTokens[k].tokenId
                             # users[i].refreshTokens[m].tokenId
                       /\ users[i].refreshTokens[k].token
                             # users[i].refreshTokens[m].token

(***************************************************************************)
(* C32.  The two token classes are not interchangeable: the gate answers   *)
(* 403 "Invalid token" to a refresh token, and Refresh, Logout and         *)
(* LogoutAll answer 401 "Invalid refresh token" to an access token and     *)
(* change no stored record.                                                *)
(***************************************************************************)
\* the access tokens clients hold: those of the logins, and the one in the
\* response just received
HeldAccess == IssuedAccess \cup ({resp.accessToken} \ {NoField})

RefusedAsRefresh(r, us) ==
    /\ r.resp.status = 401
    /\ r.resp.message = "Invalid refresh token"
    /\ r.resp.accessToken = NoField
    /\ r.users = us

TokenClassesApart ==
    /\ \A tok \in IssuedRefresh :
          /\ ~auth(<<"Bearer", tok>>).next
          /\ AuthRoute(<<"Bearer", tok>>) = InvalidTokenError
          /\ InvalidTokenError.status = 403
    /\ \A tok \in HeldAccess :
          LET body == [refreshToken |-> tok]
          IN  /\ RefusedAsRefresh(RefreshRoute(users, now, body), users)
              /\ RefusedAsRefresh(LogoutRoute(users, body), users)
              /\ RefusedAsRefresh(LogoutAllRoute(users, body), users)

C33_LogoutAllWithDeadToken ==
    [][resp'.op = "logout-all" =>
          \A body \in ValidTokenBodies :
             (/\ LogoutAll(body)
              /\ VerifiesAsRefresh(body.refreshToken)
              /\ ~HoldsRecord(users, body.refreshToken))
             => /\ resp'.status = 200
                /\ resp'.message = "Logged out from all devices successfully"
                /\ RecordsOf(users', body.refreshToken.payload.username) = <<>>
                /\ \A t \in IssuedRefresh :
                      t.payload.username = body.refreshToken.payload.username
                          => RejectedIn(users', t)]_vars

\* a LogoutAll has succeeded after the cap had evicted a token and a
\* Logout had ended a streak of logins: tokens without a record were out
C33_Witness ==
    /\ resp.op = "logout-all"
    /\ resp.status = 200
    /\ Len(issued) > MaxRefreshTokens
    /\ \A i \in 1..Len(users) : ~users[i].hasTokens

(***************************************************************************)
(* C34.  No operation changes the username or the password hash of an      *)
(* existing user and none deletes a user: the registered usernames only    *)
(* grow, and a password that Login accepts for a user is accepted by every *)
(* later Login of that user.                                               *)
(***************************************************************************)
\* Login would answer 200 to body in the collection us
LoginAccepts(us, body) ==
    LoginRoute(us, nodeEnv, now, Len(issued), body, "Device1").resp.status = 200

C34_IdentityImmutable ==
    [][/\ Len(users') >= Len(users)
       /\ \A i \in 1..Len(users) :
             /\ users'[i].username = users[i].username
             /\ users'[i].password = users[i].password
       /\ \A body \in LoginBodies(ValidUsernames) :
             LoginAccepts(users, body) => LoginAccepts(users', body)]_vars

\* both users are registered, a login was accepted and a LogoutAll has
\* since updated a document
C34_Witness ==
    /\ Len(users) = Cardinality(ValidUsernames)
    /\ issued # <<>>
    /\ resp.op = "logout-all"
    /\ resp.status = 200
    /\ \E body \in LoginBodies(ValidUsernames) : LoginAccepts(users, body)

(***************************************************************************)
(* C35.  After LogoutAll has unset a user's refreshTokens field, a Login   *)
(* with correct credentials answers 200 and leaves the user with exactly   *)
(* one record, the one of the refresh token it returned, which Refresh     *)
(* then accepts.                                                           *)
(***************************************************************************)
\* Login answers 200 to the credentials of a user whose field is unset
ClearedUserCanLogin ==
    \A i \in 1..Len(users) :
        ~users[i].hasTokens =>
            LoginAccepts(users, [username |-> users[i].username,
                                 password |-> users[i].password.of])

C35_LoginAfterLogoutAll ==
    /\ [][(issued' # issued /\ resp'.op = "login") =>
             LET u == FindOne(users, resp'.refreshToken.payload.username)
             IN  ~users[u].hasTokens =>
                    /\ resp'.status = 200
                    /\ users'[u].hasTokens
                    /\ Len(users'[u].refreshTokens) = 1
                    /\ users'[u].refreshTokens[1].token = resp'.refreshToken
                    /\ AcceptedIn(users', resp'.refreshToken)]_vars
    /\ []ClearedUserCanLogin

\* a Login has left its user with exactly one record after the records of
\* the tokens issued earlier were all removed
C35_Witness ==
    /\ resp.op = "login"
    /\ resp.status = 200
    /\ Len(issued) > 2
    /\ \E i \in 1..Len(users) :
          /\ Len(users[i].refreshTokens) = 1
          /\ streak[users[i].username] = 1

(***************************************************************************)
(* C36.  A successful Register creates the user with an empty record       *)
(* sequence and returns no token: from a user's registration to that       *)
(* user's first successful Login, Refresh accepts no token that names the  *)
(* user, whatever token id and issue time a correctly signed one carries.  *)
(***************************************************************************)
NeverLoggedIn(u) == FindOne(users, u) # 0 /\ IssuedTo(u) = <<>>

NoSessionBeforeLogin ==
    \A u \in ValidUsernames :
        NeverLoggedIn(u) =>
            /\ RecordsOf(users, u) = <<>>
            /\ \A tokenId \in 1..MaxTokenIds, t \in 0..now :
                  RejectedIn(users, LoginRefreshToken(u, tokenId, t))

C36_NoTokenBeforeFirstLogin ==
    /\ [][(resp'.op = "register" /\ resp'.status = 201) =>
             /\ resp'.accessToken = NoField
             /\ resp'.refreshToken = NoField
             /\ (Len(users') > Len(users) =>
                    LoadedTokens(users'[Len(users')]) = <<>>)]_vars
    /\ []NoSessionBeforeLogin

\* one user is registered and has not logged in, while the other user
\* holds a record
C36_Witness ==
    /\ \E u \in ValidUsernames : NeverLoggedIn(u)
    /\ \E i \in 1..Len(users) : users[i].refreshTokens # <<>>

(***************************************************************************)
(* C37.  Every request to Register, Login, Refresh, Logout, LogoutAll or a *)
(* gated route eventually receives exactly one response, given that every  *)
(* store and hash call resolves or rejects: no path of a middleware or of  *)
(* a handler writes two responses, nothing of the request runs after its   *)
(* response is written, and no middleware calls next() for a request it    *)
(* has answered.                                                           *)
(***************************************************************************)
InService == procs[1].pc \notin {"idle", "done"}

Answered == procs[1].pc = "done" /\ procs[1].sent = 1

AtMostOneResponse ==
    /\ procs[1].sent <= 1
    /\ procs[1].passed <= 1
    /\ procs[1].pc = "done" => procs[1].sent = 1
    /\ procs[1].sent = 1 => procs[1].pc = "done"

C37_ExactlyOneResponse ==
    /\ [][procs'[1].passed > procs[1].passed => procs'[1].sent = 0]_vars
    /\ []AtMostOneResponse
    /\ InService ~> Answered

\* the gate has refused a token with the 403 and has not called next()
C37_Witness ==
    /\ procs[1].route = "tasks.list"
    /\ procs[1].pc = "done"
    /\ procs[1].sent = 1
    /\ procs[1].passed = 0
    /\ resp = InvalidTokenError

(***************************************************************************)
(* C38.  The relaxed password rule (8-100 characters, no character-class   *)
(* requirement) is applied to Register and Login exactly when NODE_ENV is  *)
(* development or test; under every other value, production included and   *)
(* the unset variable too, the strict rule (8-100 characters with a        *)
(* lowercase letter, an uppercase letter and a digit) is applied.          *)
(***************************************************************************)
RelaxedRule(password) == Len(password) \in PasswordMin..PasswordMax

StrictRule(password) ==
    /\ RelaxedRule(password)
    /\ \E i \in 1..Len(password) : password[i] \in Lower
    /\ \E i \in 1..Len(password) : password[i] \in Upper
    /\ \E i \in 1..Len(password) : password[i] \in Digit

\* the rule a Register or Login step applied to the password of its body
StepApplies(rule(_)) ==
    /\ \A body \in EnvBodies :
          Register(body) =>
              ((resp'.status = 400 /\ resp'.details) <=> ~rule(body.password))
    /\ \A body \in EnvBodies, userAgent \in UserAgents :
          Login(body, userAgent, MaxLogins) =>
              ((resp'.status = 400 /\ resp'.details) <=> ~rule(body.password))

C38_RelaxedExactlyInDevelopmentOrTest ==
    [][resp'.op \in {"register", "login"} =>
          IF nodeEnv \in {"development", "test"}
          THEN StepApplies(RelaxedRule)
          ELSE StepApplies(StrictRule)]_vars

\* a password without an uppercase letter and a digit was refused under an
\* environment that is neither production nor development nor test
C38_Witness ==
    /\ nodeEnv \notin {"production", "development", "test"}
    /\ resp.op = "register"
    /\ resp.status = 400
    /\ resp.details

\* C38 as stated: the strict rule exactly in production, the relaxed rule
\* in every other environment
C38_StrictExactlyInProduction ==
    [][resp'.op \in {"register", "login"} =>
          IF nodeEnv = "production"
          THEN StepApplies(StrictRule)
          ELSE StepApplies(RelaxedRule)]_vars

TypeOK ==
    /\ now \in 0..MaxClock
    /\ Len(issued) <= CapLogins
    /\ Len(users) <= Cardinality(ValidUsernames)
    /\ created \in 0..MaxTasks
    /\ Len(tasks) <= created
    /\ ran \in {"none", "greeting", "list", "create", "update", "delete"}

====
